---------------------------- MODULE Spec2Model ----------------------------
(***************************************************************************)
(* gocov: per-directory aggregation of Go coverage profiles                *)
(* (analyzer.go), its worker-pool variant (analyzer_concurrent.go) and the *)
(* coverage filter.                                                        *)
(*                                                                         *)
(* A Go string is a sequence of one-character strings, so that splitting,  *)
(* joining, trimming and glob matching are computed character by           *)
(* character.  A map is a function whose DOMAIN is the key set.            *)
(***************************************************************************)
EXTENDS Integers, Sequences, FiniteSets, TLC

VARIABLES
    level,           \* CoverageAnalyzer.level
    ignorePatterns,  \* CoverageAnalyzer.ignorePatterns
    profiles,        \* the []*cover.Profile argument (NIL for a nil pointer)
    entry,           \* the method that was called
    pc,              \* position of the calling goroutine
    seqI,            \* Aggregate: index of the range loop over profiles
    seqB,            \* Aggregate: index of the range loop over profile.Blocks
    seqDir,          \* Aggregate: the local variable dir
    coverageByDir,   \* Aggregate: the map under construction
    sendI,           \* AggregateConcurrent: index of the send loop
    profileChan,     \* buffered channel of profiles: [buf, closed]
    resultChan,      \* buffered channel of profileResult: [buf, closed]
    workers,         \* worker goroutines: [pc, result]
    wg,              \* sync.WaitGroup counter
    waiter,          \* the goroutine that waits and closes resultChan
    finalCoverage,   \* AggregateConcurrent: the combined map
    ret,             \* the value returned to the caller
    merged,          \* history: number of results the merge loop has received
    finalAlloc,      \* history: the goroutine that allocated each entry of
                     \* the combined map ("main", or "worker")
    call,            \* pure-function checks: the arguments
    out              \* pure-function checks: the result

vars == <<level, ignorePatterns, profiles, entry, pc, seqI, seqB, seqDir,
          coverageByDir, sendI, profileChan, resultChan, workers, wg, waiter,
          finalCoverage, ret, merged, finalAlloc, call, out>>

aggVars == <<level, ignorePatterns, profiles, entry, pc, seqI, seqB, seqDir,
             coverageByDir, sendI, profileChan, resultChan, workers, wg,
             waiter, finalCoverage, ret, merged, finalAlloc>>

fnVars == <<call, out>>

-----------------------------------------------------------------------------
(* Strings                                                                 *)

\* a nil *cover.Profile
NIL == [nil |-> TRUE]

\* what a call gives back: nothing yet, a map, or a run-time panic
NONE == [kind |-> "none"]
PANIC == [kind |-> "panic"]
Returned(m) == [kind |-> "map", m |-> m]

\* a function called on its own: no call, and the value it returns
NoCall == [fn |-> "none"]
Str(v) == [kind |-> "string", v |-> v]
Bool(v) == [kind |-> "bool", v |-> v]

Separator == "/"

\* Byte value of a character (Go compares strings byte-wise).
Ord(c) ==
    CASE c = "*" -> 42
      [] c = "." -> 46
      [] c = "/" -> 47
      [] c = "[" -> 91
      [] c = "a" -> 97
      [] c = "b" -> 98
      [] c = "c" -> 99

\* s < t in Go's string order.
RECURSIVE StrLess(_, _)
StrLess(s, t) ==
    IF t = <<>> THEN FALSE
    ELSE IF s = <<>> THEN TRUE
    ELSE IF Ord(Head(s)) # Ord(Head(t)) THEN Ord(Head(s)) < Ord(Head(t))
    ELSE StrLess(Tail(s), Tail(t))

HasChar(s, c) == \E i \in 1..Len(s) : s[i] = c

\* strings.Contains(s, sub)
Contains(s, sub) ==
    \E i \in 0..(Len(s) - Len(sub)) : SubSeq(s, i + 1, i + Len(sub)) = sub

\* strings.Trim(s, "*"): leading and trailing '*' removed.
RECURSIVE TrimLeft(_)
TrimLeft(s) == IF s # <<>> /\ Head(s) = "*" THEN TrimLeft(Tail(s)) ELSE s

RECURSIVE TrimRight(_)
TrimRight(s) ==
    IF s # <<>> /\ s[Len(s)] = "*" THEN TrimRight(SubSeq(s, 1, Len(s) - 1))
    ELSE s

Trim(s) == TrimRight(TrimLeft(s))

\* strings.Split(s, "/"): always at least one element.
RECURSIVE Split(_)
Split(s) ==
    IF ~HasChar(s, Separator) THEN <<s>>
    ELSE LET i == CHOOSE i \in 1..Len(s) :
                     s[i] = Separator /\ \A j \in 1..(i - 1) : s[j] # Separator
         IN  <<SubSeq(s, 1, i - 1)>> \o Split(SubSeq(s, i + 1, Len(s)))

\* strings.Join(elems, "/")
RECURSIVE StringsJoin(_)
StringsJoin(elems) ==
    IF elems = <<>> THEN <<>>
    ELSE IF Len(elems) = 1 THEN elems[1]
    ELSE elems[1] \o <<Separator>> \o StringsJoin(Tail(elems))

\* filepath.Clean on the components of a path: empty and "." elements are
\* dropped, "x/.." is eliminated, ".." at the root is dropped.
RECURSIVE CleanParts(_, _, _)
CleanParts(parts, stack, rooted) ==
    IF parts = <<>> THEN stack
    ELSE LET p == Head(parts) IN
         IF p = <<>> \/ p = <<".">> THEN CleanParts(Tail(parts), stack, rooted)
         ELSE IF p = <<".", ".">> THEN
              IF stack # <<>> /\ stack[Len(stack)] # <<".", ".">>
              THEN CleanParts(Tail(parts), SubSeq(stack, 1, Len(stack) - 1), rooted)
              ELSE IF rooted THEN CleanParts(Tail(parts), stack, rooted)
              ELSE CleanParts(Tail(parts), Append(stack, p), rooted)
         ELSE CleanParts(Tail(parts), Append(stack, p), rooted)

Clean(path) ==
    LET rooted == path # <<>> /\ Head(path) = Separator
        body == StringsJoin(CleanParts(Split(path), <<>>, rooted))
    IN  IF rooted THEN <<Separator>> \o body
        ELSE IF body = <<>> THEN <<".">>
        ELSE body

\* filepath.Join(elems...): leading empty elements are skipped, the rest is
\* joined with '/' and cleaned; "" when every element is empty.
RECURSIVE Join(_)
Join(elems) ==
    IF elems = <<>> THEN <<>>
    ELSE IF Head(elems) = <<>> THEN Join(Tail(elems))
    ELSE Clean(StringsJoin(elems))

\* filepath.Dir(path): everything up to and including the last separator,
\* cleaned.
Dir(path) ==
    LET seps == {i \in 1..Len(path) : path[i] = Separator}
        last == IF seps = {} THEN 0
                ELSE CHOOSE i \in seps : \A j \in seps : j <= i
    IN  Clean(SubSeq(path, 1, last))


-----------------------------------------------------------------------------
(* filepath.Match                                                          *)
(* Patterns are built from literals, '*' and '['.  No pattern of the model *)
(* holds ']', so a '[' opens a character class that is never closed and    *)
(* Match returns ErrBadPattern whatever the name (it checks the remainder  *)
(* of the pattern for syntax errors before it returns).                    *)

MATCH == "match"
NOMATCH == "nomatch"
ERRBAD == "ErrBadPattern"

\* scanChunk: the leading stars, the chunk up to the next star, the rest.
ScanChunk(pattern) ==
    LET p == TrimLeft(pattern)
        stars == {i \in 1..Len(p) : p[i] = "*"}
        n == IF stars = {} THEN Len(p)
             ELSE (CHOOSE i \in stars : \A j \in stars : i <= j) - 1
    IN  [star |-> Len(p) < Len(pattern),
         chunk |-> SubSeq(p, 1, n),
         rest |-> SubSeq(p, n + 1, Len(p))]

\* matchChunk for a chunk of literals: the chunk must be a prefix of s.
MatchChunk(chunk, s) ==
    IF Len(chunk) <= Len(s) /\ SubSeq(s, 1, Len(chunk)) = chunk
    THEN [ok |-> TRUE, rest |-> SubSeq(s, Len(chunk) + 1, Len(s))]
    ELSE [ok |-> FALSE, rest |-> <<>>]

RECURSIVE MatchLoop(_, _)
MatchLoop(pattern, name) ==
    IF pattern = <<>> THEN name = <<>>
    ELSE
      LET sc == ScanChunk(pattern) IN
      IF sc.star /\ sc.chunk = <<>> THEN ~HasChar(name, Separator)
      ELSE
        LET m == MatchChunk(sc.chunk, name) IN
        IF m.ok /\ (m.rest = <<>> \/ sc.rest # <<>>)
        THEN MatchLoop(sc.rest, m.rest)
        ELSE IF sc.star THEN
          \* skip i+1 bytes, never a '/'; the last chunk must exhaust the name
          LET After(i) == SubSeq(name, i + 2, Len(name))
              hits == {i \in 0..(Len(name) - 1) :
                         /\ \A j \in 0..i : name[j + 1] # Separator
                         /\ MatchChunk(sc.chunk, After(i)).ok
                         /\ ~(sc.rest = <<>>
                              /\ MatchChunk(sc.chunk, After(i)).rest # <<>>)}
          IN  IF hits = {} THEN FALSE
              ELSE LET i == CHOOSE i \in hits : \A j \in hits : i <= j
                   IN  MatchLoop(sc.rest, MatchChunk(sc.chunk, After(i)).rest)
        ELSE FALSE

Match(pattern, name) ==
    IF HasChar(pattern, "[") THEN ERRBAD
    ELSE IF MatchLoop(pattern, name) THEN MATCH
    ELSE NOMATCH

-----------------------------------------------------------------------------
(* analyzer.go                                                             *)

\* One iteration of the loop over patterns in ShouldIgnoreDirectory: TRUE
\* when it returns true, FALSE when it goes on to the next pattern.
\* (variant: the checks of the path components are left out)
PatternIgnoresNoParts(dir, pattern) ==
    IF pattern = <<>> THEN FALSE
    ELSE IF Match(pattern, dir) = ERRBAD THEN FALSE
    ELSE IF Match(pattern, dir) = MATCH THEN TRUE
    ELSE /\ HasChar(pattern, Separator)
         /\ \/ Match(pattern, dir) = MATCH
            \/ Contains(dir, Trim(pattern))

\* (variant: the empty pattern is not skipped)
PatternIgnoresEmptyNotSkipped(dir, pattern) ==
    IF Match(pattern, dir) = ERRBAD THEN FALSE
    ELSE IF Match(pattern, dir) = MATCH THEN TRUE
    ELSE IF /\ HasChar(pattern, Separator)
            /\ \/ Match(pattern, dir) = MATCH
               \/ Contains(dir, Trim(pattern))
         THEN TRUE
    ELSE LET parts == Split(dir)
         IN  \E i \in 1..Len(parts) :
                \/ Match(pattern, parts[i]) = MATCH
                \/ Match(pattern, Join(SubSeq(parts, 1, i))) = MATCH

PatternIgnores(dir, pattern) ==
    IF pattern = <<>> THEN FALSE
    ELSE IF Match(pattern, dir) = ERRBAD THEN FALSE
    ELSE IF Match(pattern, dir) = MATCH THEN TRUE
    ELSE IF /\ HasChar(pattern, Separator)
            /\ \/ Match(pattern, dir) = MATCH
               \/ Contains(dir, Trim(pattern))
         THEN TRUE
    ELSE LET parts == Split(dir)
         IN  \E i \in 1..Len(parts) :
                \/ Match(pattern, parts[i]) = MATCH
                \/ Match(pattern, Join(SubSeq(parts, 1, i))) = MATCH

ShouldIgnoreDirectory(dir, patterns) ==
    \E n \in 1..Len(patterns) : PatternIgnores(dir, patterns[n])

adjustDirectoryLevel(lvl, dir) ==
    IF lvl > 0 THEN
        LET parts == Split(dir)
        IN  IF Len(parts) > lvl THEN Join(SubSeq(parts, 1, lvl)) ELSE dir
    ELSE IF lvl = -1 THEN <<".">>
    ELSE dir

\* map helpers
EmptyMap == [k \in {} |-> NIL]

MapPut(m, k, v) == [x \in (DOMAIN m) \cup {k} |-> IF x = k THEN v ELSE m[x]]

\* &DirCoverage{Dir: dir}
NewDirCoverage(dir) == [Dir |-> dir, StmtCount |-> 0, StmtCovered |-> 0]

\* if _, exists := coverageByDir[dir]; !exists { coverageByDir[dir] = ... }
EnsureDir(m, dir) ==
    IF dir \in DOMAIN m THEN m ELSE MapPut(m, dir, NewDirCoverage(dir))

\* (variant: the execution count is added instead of the statement count)
AddBlockCountAsCovered(cov, block) ==
    [cov EXCEPT !.StmtCount = @ + block.NumStmt,
                !.StmtCovered = IF block.Count > 0 THEN @ + block.Count ELSE @]

\* (variant: the test block.Count > 0 is left out)
AddBlockAlwaysCovered(cov, block) ==
    [cov EXCEPT !.StmtCount = @ + block.NumStmt,
                !.StmtCovered = @ + block.NumStmt]

\* The body of the loop over profile.Blocks.
AddBlock(cov, block) ==
    [cov EXCEPT !.StmtCount = @ + block.NumStmt,
                !.StmtCovered = IF block.Count > 0 THEN @ + block.NumStmt ELSE @]

\* The entry after the first n blocks of the loop.
RECURSIVE AddBlocks(_, _, _)
AddBlocks(cov, blocks, n) ==
    IF n = 0 THEN cov
    ELSE AddBlock(AddBlocks(cov, blocks, n - 1), blocks[n])


\* Aggregate on profiles[i..]: the operator form of the loop, for the
\* comparison of two calls.  PANIC when a nil profile is dereferenced.
RECURSIVE AggregateFrom(_, _, _, _, _)
AggregateFrom(m, ps, i, lvl, pats) ==
    IF i > Len(ps) THEN Returned(m)
    ELSE IF ps[i] = NIL THEN PANIC
    ELSE LET dir == Dir(ps[i].FileName) IN
         IF ShouldIgnoreDirectory(dir, pats)
         THEN AggregateFrom(m, ps, i + 1, lvl, pats)
         ELSE LET d == adjustDirectoryLevel(lvl, dir)
                  m1 == EnsureDir(m, d)
                  m2 == [m1 EXCEPT ![d] = AddBlocks(@, ps[i].Blocks,
                                                    Len(ps[i].Blocks))]
              IN  AggregateFrom(m2, ps, i + 1, lvl, pats)

Aggregate(ps, lvl, pats) == AggregateFrom(EmptyMap, ps, 1, lvl, pats)

-----------------------------------------------------------------------------
(* float64                                                                 *)
(* A finite non-negative float64 is its exponent e and its 53-bit          *)
(* significand m, most significant bit first and equal to 1, standing for  *)
(* 1.m[2]m[3]... * 2^e; zero has the empty significand.  Division and      *)
(* multiplication round the exact result to nearest, ties to even, as      *)
(* IEEE 754 does.                                                          *)

MantissaBits == 53

FZero == [nan |-> FALSE, e |-> 0, m |-> <<>>]
FNaN == [nan |-> TRUE, e |-> 0, m |-> <<>>]

RECURSIVE Pow2(_)
Pow2(n) == IF n = 0 THEN 1 ELSE 2 * Pow2(n - 1)

RECURSIVE ToBits(_)
ToBits(n) == IF n = 0 THEN <<>> ELSE ToBits(n \div 2) \o <<n % 2>>

\* the next n quotient bits of r/B, followed by the remainder left
RECURSIVE DivBits(_, _, _)
DivBits(r, B, n) ==
    IF n = 0 THEN <<r>>
    ELSE IF 2 * r >= B THEN <<1>> \o DivBits(2 * r - B, B, n - 1)
    ELSE <<0>> \o DivBits(2 * r, B, n - 1)

\* bits + 1, preceded by the carry out of the top bit
RECURSIVE IncBits(_)
IncBits(bits) ==
    IF bits = <<>> THEN <<1>>
    ELSE IF bits[Len(bits)] = 0
         THEN <<0>> \o SubSeq(bits, 1, Len(bits) - 1) \o <<1>>
    ELSE Append(IncBits(SubSeq(bits, 1, Len(bits) - 1)), 0)

\* the significand kept, rounded up or not
RoundTo(bits, e, up) ==
    IF ~up THEN [nan |-> FALSE, e |-> e, m |-> bits]
    ELSE IF Head(IncBits(bits)) = 1
         THEN [nan |-> FALSE, e |-> e + 1,
               m |-> <<1>> \o SubSeq(IncBits(bits), 2, Len(bits))]
         ELSE [nan |-> FALSE, e |-> e, m |-> Tail(IncBits(bits))]

\* float64(a) / float64(b) for integers a >= 0, b > 0
FDivInt(a, b) ==
    IF a = 0 THEN FZero
    ELSE LET up == IF a >= b
                   THEN CHOOSE k \in 0..20 : b * Pow2(k) <= a /\ a < b * Pow2(k + 1)
                   ELSE 0
             dn == IF a >= b THEN 0
                   ELSE CHOOSE k \in 1..20 : a * Pow2(k) >= b /\ a * Pow2(k - 1) < b
             A == a * Pow2(dn)
             B == b * Pow2(up)
             q == DivBits(A - B, B, MantissaBits - 1)
             m == <<1>> \o SubSeq(q, 1, MantissaBits - 1)
             r == q[MantissaBits]
             roundUp == \/ 2 * r > B
                        \/ 2 * r = B /\ m[MantissaBits] = 1
         IN  RoundTo(m, up - dn, roundUp)

\* bits * k, processed from the least significant bit
RECURSIVE MulBits(_, _, _)
MulBits(bits, k, carry) ==
    IF bits = <<>> THEN ToBits(carry)
    ELSE LET t == bits[Len(bits)] * k + carry
         IN  IF t % 2 = 0
             THEN Append(MulBits(SubSeq(bits, 1, Len(bits) - 1), k, t \div 2), 0)
             ELSE Append(MulBits(SubSeq(bits, 1, Len(bits) - 1), k, t \div 2), 1)

\* x * float64(k) for an integer k >= 1
FMulInt(x, k) ==
    IF x.nan THEN FNaN
    ELSE IF x.m = <<>> THEN FZero
    ELSE LET P == MulBits(x.m, k, 0)
             extra == Len(P) - MantissaBits
             kept == SubSeq(P, 1, MantissaBits)
             roundUp == /\ extra > 0
                        /\ P[MantissaBits + 1] = 1
                        /\ \/ \E i \in (MantissaBits + 2)..Len(P) : P[i] = 1
                           \/ kept[MantissaBits] = 1
         IN  RoundTo(kept, x.e + extra, roundUp)

\* float64(n), and the literal d/10 (49.9 is FTenths(499))
FInt(n) == FDivInt(n, 1)
FTenths(d) == FDivInt(d, 10)

RECURSIVE BitsLeq(_, _)
BitsLeq(x, y) ==
    IF x = <<>> THEN TRUE
    ELSE IF Head(x) # Head(y) THEN Head(x) < Head(y)
    ELSE BitsLeq(Tail(x), Tail(y))

\* x <= y; false when either is NaN
FLeq(x, y) ==
    IF x.nan \/ y.nan THEN FALSE
    ELSE IF x.m = <<>> THEN TRUE
    ELSE IF y.m = <<>> THEN FALSE
    ELSE x.e < y.e \/ (x.e = y.e /\ BitsLeq(x.m, y.m))

\* (variant: the test stmtCount > 0 is left out; 0/0 is NaN)
CalculateCoverageUnguarded(stmtCount, stmtCovered) ==
    IF stmtCount = 0 THEN FNaN
    ELSE FMulInt(FDivInt(stmtCovered, stmtCount), 100)

\* CalculateCoverage(stmtCount, stmtCovered)
CalculateCoverage(stmtCount, stmtCovered) ==
    IF stmtCount > 0 THEN FMulInt(FDivInt(stmtCovered, stmtCount), 100)
    ELSE FZero

\* (variant: the bounds are exclusive)
InRangeExclusive(coverage, minCoverage, maxCoverage) ==
    /\ FLeq(minCoverage, coverage) /\ ~FLeq(coverage, minCoverage)
    /\ FLeq(coverage, maxCoverage) /\ ~FLeq(maxCoverage, coverage)

\* coverage >= minCoverage && coverage <= maxCoverage
InRange(coverage, minCoverage, maxCoverage) ==
    FLeq(minCoverage, coverage) /\ FLeq(coverage, maxCoverage)

\* sort.Strings: insertion into an ascending sequence
RECURSIVE InsertString(_, _)
InsertString(sorted, x) ==
    IF sorted = <<>> THEN <<x>>
    ELSE IF StrLess(x, Head(sorted)) THEN <<x>> \o sorted
    ELSE <<Head(sorted)>> \o InsertString(Tail(sorted), x)

RECURSIVE SortStrings(_)
SortStrings(seq) ==
    IF seq = <<>> THEN <<>>
    ELSE InsertString(SortStrings(Tail(seq)), Head(seq))

\* FilterDirectories, the map being ranged over in the given order
FilterDirectories(m, order, minCoverage, maxCoverage) ==
    SortStrings(
        SelectSeq(order,
                  LAMBDA d : InRange(CalculateCoverage(m[d].StmtCount,
                                                       m[d].StmtCovered),
                                     minCoverage, maxCoverage)))

-----------------------------------------------------------------------------
(* analyzer_concurrent.go                                                  *)

ConcurrencyThreshold == 10
MaxWorkers == 4

NumWorkers(n) == IF n < MaxWorkers THEN n ELSE MaxWorkers

\* processProfile: the partial map of one profile.
processProfile(profile, lvl, pats) ==
    LET dir == Dir(profile.FileName) IN
    IF ShouldIgnoreDirectory(dir, pats) THEN EmptyMap
    ELSE LET d == adjustDirectoryLevel(lvl, dir)
             m1 == EnsureDir(EmptyMap, d)
         IN  [m1 EXCEPT ![d] = AddBlocks(@, profile.Blocks, Len(profile.Blocks))]

\* (variant: a directory's first entry is the worker's own accumulator)
MergeAllocAliased(alloc, result) ==
    [d \in (DOMAIN alloc) \cup (DOMAIN result) |->
        IF d \in DOMAIN alloc THEN alloc[d] ELSE "worker"]

\* The allocations of the merge loop: an entry for a directory the
\* combined map does not hold yet is a new DirCoverage made by the merging
\* goroutine, holding copies of the fields of the worker's entry.
MergeAlloc(alloc, result) ==
    [d \in (DOMAIN alloc) \cup (DOMAIN result) |->
        IF d \in DOMAIN alloc THEN alloc[d] ELSE "main"]

\* The body of the merge loop for one received result.
MergeResult(final, result) ==
    [d \in (DOMAIN final) \cup (DOMAIN result) |->
        IF d \notin DOMAIN result THEN final[d]
        ELSE IF d \in DOMAIN final
        THEN [final[d] EXCEPT !.StmtCount = @ + result[d].StmtCount,
                              !.StmtCovered = @ + result[d].StmtCovered]
        ELSE [Dir |-> result[d].Dir,
              StmtCount |-> result[d].StmtCount,
              StmtCovered |-> result[d].StmtCovered]]

-----------------------------------------------------------------------------
(* The calls                                                               *)

NoChan == [buf |-> <<>>, closed |-> FALSE]

\* a.Aggregate(profiles): the map is made and the loop entered.
EnterAggregate ==
    /\ pc' = "seq"
    /\ seqI' = 1
    /\ coverageByDir' = EmptyMap
    /\ UNCHANGED <<level, ignorePatterns, profiles, entry, seqB, seqDir, sendI,
                   profileChan, resultChan, workers, wg, waiter, finalCoverage,
                   ret, merged, call,
                   out, finalAlloc>>

CallAggregate ==
    /\ pc = "call"
    /\ entry = "Aggregate"
    /\ EnterAggregate

\* AggregateConcurrent with at most 10 profiles: return a.Aggregate(profiles)
CallConcurrentSmall ==
    /\ pc = "call"
    /\ entry = "AggregateConcurrent"
    /\ Len(profiles) <= ConcurrencyThreshold
    /\ EnterAggregate

\* AggregateConcurrent above the threshold: channels made, workers started.
CallConcurrentPool ==
    /\ pc = "call"
    /\ entry = "AggregateConcurrent"
    /\ Len(profiles) > ConcurrencyThreshold
    /\ profileChan' = NoChan
    /\ resultChan' = NoChan
    /\ workers' = [w \in 1..NumWorkers(Len(profiles)) |->
                      [pc |-> "recv", result |-> EmptyMap]]
    /\ wg' = NumWorkers(Len(profiles))
    /\ sendI' = 1
    /\ pc' = "send"
    /\ UNCHANGED <<level, ignorePatterns, profiles, entry, seqI, seqB, seqDir,
                   coverageByDir, waiter, finalCoverage, ret, merged, call,
                   out, finalAlloc>>

\* Aggregate, head of the loop over profiles: the loop is over.
SeqReturn ==
    /\ pc = "seq"
    /\ seqI > Len(profiles)
    /\ ret' = Returned(coverageByDir)
    /\ pc' = "done"
    /\ UNCHANGED <<level, ignorePatterns, profiles, entry, seqI, seqB, seqDir,
                   coverageByDir, sendI, profileChan, resultChan, workers, wg,
                   waiter, finalCoverage, merged, call,
                   out, finalAlloc>>

\* Aggregate, profile.FileName of a nil profile: nil pointer dereference.
SeqNilDeref ==
    /\ pc = "seq"
    /\ seqI <= Len(profiles)
    /\ profiles[seqI] = NIL
    /\ ret' = PANIC
    /\ pc' = "panic"
    /\ UNCHANGED <<level, ignorePatterns, profiles, entry, seqI, seqB, seqDir,
                   coverageByDir, sendI, profileChan, resultChan, workers, wg,
                   waiter, finalCoverage, merged, call,
                   out, finalAlloc>>

\* Aggregate, loop body up to the loop over the blocks.
SeqProfile ==
    /\ pc = "seq"
    /\ seqI <= Len(profiles)
    /\ profiles[seqI] # NIL
    /\ LET dir == Dir(profiles[seqI].FileName) IN
       IF ShouldIgnoreDirectory(dir, ignorePatterns)
       THEN /\ seqI' = seqI + 1
            /\ UNCHANGED <<pc, seqB, seqDir, coverageByDir>>
       ELSE /\ seqDir' = adjustDirectoryLevel(level, dir)
            /\ coverageByDir' = EnsureDir(coverageByDir, seqDir')
            /\ seqB' = 1
            /\ pc' = "blocks"
            /\ UNCHANGED seqI
    /\ UNCHANGED <<level, ignorePatterns, profiles, entry, sendI, profileChan,
                   resultChan, workers, wg, waiter, finalCoverage, ret, merged, call,
                   out, finalAlloc>>

\* Aggregate, one iteration of the loop over profile.Blocks (or its end).
SeqBlock ==
    /\ pc = "blocks"
    /\ IF seqB <= Len(profiles[seqI].Blocks)
       THEN /\ coverageByDir' =
                 [coverageByDir EXCEPT ![seqDir] =
                     AddBlock(@, profiles[seqI].Blocks[seqB])]
            /\ seqB' = seqB + 1
            /\ UNCHANGED <<pc, seqI>>
       ELSE /\ seqI' = seqI + 1
            /\ pc' = "seq"
            /\ UNCHANGED <<seqB, coverageByDir>>
    /\ UNCHANGED <<level, ignorePatterns, profiles, entry, seqDir, sendI,
                   profileChan, resultChan, workers, wg, waiter, finalCoverage,
                   ret, merged, call,
                   out, finalAlloc>>

\* profileChan <- profile (the channel has room for every profile)
SendProfile ==
    /\ pc = "send"
    /\ sendI <= Len(profiles)
    /\ Len(profileChan.buf) < Len(profiles)
    /\ profileChan' = [profileChan EXCEPT !.buf = Append(@, profiles[sendI])]
    /\ sendI' = sendI + 1
    /\ UNCHANGED <<level, ignorePatterns, profiles, entry, pc, seqI, seqB,
                   seqDir, coverageByDir, resultChan, workers, wg, waiter,
                   finalCoverage, ret, merged, merged, call,
                   out, finalAlloc>>

\* close(profileChan); the waiting goroutine is started; finalCoverage made.
CloseProfileChan ==
    /\ pc = "send"
    /\ sendI > Len(profiles)
    /\ profileChan' = [profileChan EXCEPT !.closed = TRUE]
    /\ waiter' = "wait"
    /\ finalCoverage' = EmptyMap
    /\ pc' = "merge"
    /\ UNCHANGED <<level, ignorePatterns, profiles, entry, seqI, seqB, seqDir,
                   coverageByDir, sendI, resultChan, workers, wg, ret, merged, call,
                   out, finalAlloc>>

\* (variant: no nil check, processProfile dereferences the nil profile)
WorkerNilDeref(w) ==
    /\ workers[w].pc = "recv"
    /\ profileChan.buf # <<>>
    /\ Head(profileChan.buf) = NIL
    /\ profileChan' = [profileChan EXCEPT !.buf = Tail(@)]
    /\ pc' = "panic"
    /\ ret' = PANIC
    /\ UNCHANGED <<level, ignorePatterns, profiles, entry, seqI, seqB,
                   seqDir, coverageByDir, sendI, resultChan, workers, wg,
                   waiter, finalCoverage, merged, call, out, finalAlloc>>

\* worker: a nil profile received, continue
WorkerSkipNil(w) ==
    /\ workers[w].pc = "recv"
    /\ profileChan.buf # <<>>
    /\ Head(profileChan.buf) = NIL
    /\ profileChan' = [profileChan EXCEPT !.buf = Tail(@)]
    /\ UNCHANGED <<level, ignorePatterns, profiles, entry, pc, seqI, seqB,
                   seqDir, coverageByDir, sendI, resultChan, workers, wg,
                   waiter, finalCoverage, ret, merged, call,
                   out, finalAlloc>>

\* (variant: the profile is processed but stays in the work queue)
WorkerProcessNoReceive(w) ==
    /\ workers[w].pc = "recv"
    /\ profileChan.buf # <<>>
    /\ Head(profileChan.buf) # NIL
    /\ workers' = [workers EXCEPT ![w] =
          [pc |-> "send",
           result |-> processProfile(Head(profileChan.buf), level,
                                     ignorePatterns)]]
    /\ UNCHANGED <<level, ignorePatterns, profiles, entry, pc, seqI, seqB,
                   seqDir, coverageByDir, sendI, resultChan, wg, waiter,
                   finalCoverage, ret, merged, call, profileChan,
                   out, finalAlloc>>

\* worker: a profile received, result := a.processProfile(profile)
WorkerProcess(w) ==
    /\ workers[w].pc = "recv"
    /\ profileChan.buf # <<>>
    /\ Head(profileChan.buf) # NIL
    /\ profileChan' = [profileChan EXCEPT !.buf = Tail(@)]
    /\ workers' = [workers EXCEPT ![w] =
          [pc |-> "send",
           result |-> processProfile(Head(profileChan.buf), level,
                                     ignorePatterns)]]
    /\ UNCHANGED <<level, ignorePatterns, profiles, entry, pc, seqI, seqB,
                   seqDir, coverageByDir, sendI, resultChan, wg, waiter,
                   finalCoverage, ret, merged, merged, call,
                   out, finalAlloc>>

\* worker: resultChan <- profileResult{coverageByDir: result}
WorkerSend(w) ==
    /\ workers[w].pc = "send"
    /\ Len(resultChan.buf) < Len(profiles)
    /\ resultChan' = [resultChan EXCEPT !.buf = Append(@, workers[w].result)]
    /\ workers' = [workers EXCEPT ![w] = [pc |-> "recv", result |-> EmptyMap]]
    /\ UNCHANGED <<level, ignorePatterns, profiles, entry, pc, seqI, seqB,
                   seqDir, coverageByDir, sendI, profileChan, wg, waiter,
                   finalCoverage, ret, merged, merged, call,
                   out, finalAlloc>>

\* (variant: the goroutine ends without wg.Done())
WorkerExitNoDone(w) ==
    /\ workers[w].pc = "recv"
    /\ profileChan.buf = <<>>
    /\ profileChan.closed
    /\ workers' = [workers EXCEPT ![w].pc = "exit"]
    /\ UNCHANGED <<level, ignorePatterns, profiles, entry, pc, seqI, seqB,
                   seqDir, coverageByDir, sendI, profileChan, resultChan,
                   waiter, finalCoverage, ret, merged, call, wg,
                   out, finalAlloc>>

\* worker: profileChan closed and drained, the loop ends; deferred wg.Done()
WorkerExit(w) ==
    /\ workers[w].pc = "recv"
    /\ profileChan.buf = <<>>
    /\ profileChan.closed
    /\ workers' = [workers EXCEPT ![w].pc = "exit"]
    /\ wg' = wg - 1
    /\ UNCHANGED <<level, ignorePatterns, profiles, entry, pc, seqI, seqB,
                   seqDir, coverageByDir, sendI, profileChan, resultChan,
                   waiter, finalCoverage, ret, merged, call,
                   out, finalAlloc>>

\* (variant: resultChan is closed without waiting for the workers)
WaiterCloseNoWait ==
    /\ waiter = "wait"
    /\ resultChan' = [resultChan EXCEPT !.closed = TRUE]
    /\ waiter' = "closed"
    /\ UNCHANGED <<level, ignorePatterns, profiles, entry, pc, seqI, seqB,
                   seqDir, coverageByDir, sendI, profileChan, workers, wg,
                   finalCoverage, ret, merged, call, out, finalAlloc>>

\* wg.Wait() returns; close(resultChan)
WaiterClose ==
    /\ waiter = "wait"
    /\ wg = 0
    /\ resultChan' = [resultChan EXCEPT !.closed = TRUE]
    /\ waiter' = "closed"
    /\ UNCHANGED <<level, ignorePatterns, profiles, entry, pc, seqI, seqB,
                   seqDir, coverageByDir, sendI, profileChan, workers, wg,
                   finalCoverage, ret, merged, merged, call,
                   out, finalAlloc>>

\* merge loop: one result received and merged
MergeOne ==
    /\ pc = "merge"
    /\ resultChan.buf # <<>>
    /\ finalCoverage' = MergeResult(finalCoverage, Head(resultChan.buf))
    /\ resultChan' = [resultChan EXCEPT !.buf = Tail(@)]
    /\ merged' = merged + 1
    /\ finalAlloc' = MergeAlloc(finalAlloc, Head(resultChan.buf))
    /\ UNCHANGED <<level, ignorePatterns, profiles, entry, pc, seqI, seqB,
                   seqDir, coverageByDir, sendI, profileChan, workers, wg,
                   waiter, ret, call,
                   out>>

\* merge loop: resultChan closed and drained; return finalCoverage
MergeReturn ==
    /\ pc = "merge"
    /\ resultChan.buf = <<>>
    /\ resultChan.closed
    /\ ret' = Returned(finalCoverage)
    /\ pc' = "done"
    /\ UNCHANGED <<level, ignorePatterns, profiles, entry, seqI, seqB, seqDir,
                   coverageByDir, sendI, profileChan, resultChan, workers, wg,
                   waiter, finalCoverage, merged, call,
                   out, finalAlloc>>


-----------------------------------------------------------------------------
(* Inputs of the aggregation runs                                          *)

MaxStmt == 2
MaxCount == 3
MaxLevel == 2
MaxShort == 2

Blk(n, c) == [NumStmt |-> n, Count |-> c]

Profile(f, b) == [FileName |-> f, Blocks |-> b]

FileAC == <<"a", "/", "c">>                    \* a/c
FileABC == <<"a", "/", "b", "/", "c">>         \* a/b/c
FileBC == <<"b", "/", "c">>                    \* b/c
FileAbsABC == <<"/", "a", "/", "b", "/", "c">> \* /a/b/c
FileEmpty == <<>>                              \* empty file name

Levels == (-1)..MaxLevel

PatternLists ==
    { <<>>,
      << <<"*">> >>,
      << <<"b">> >>,
      << <<>>, <<"a", "/", "*">> >> }

ProfileKinds ==
    { NIL,
      Profile(FileAC, <<Blk(1, MaxCount)>>),
      Profile(FileAC, <<Blk(MaxStmt, 0), Blk(1, 1)>>),
      Profile(FileABC, <<Blk(MaxStmt, 0), Blk(1, MaxCount)>>),
      Profile(FileBC, <<>>),
      Profile(FileAbsABC, <<Blk(1, 0)>>),
      Profile(FileEmpty, <<Blk(MaxStmt, 1)>>) }

\* the profile that fills a list up above the threshold
Filler == Profile(FileBC, <<Blk(1, 1)>>)

ShortLists ==
    UNION {[1..n -> ProfileKinds] : n \in 0..MaxShort}

Pad(head) ==
    head \o [i \in 1..(ConcurrencyThreshold + 1 - Len(head)) |-> Filler]

PoolHeads ==
    { <<Profile(FileABC, <<Blk(MaxStmt, 0), Blk(1, MaxCount)>>),
        Profile(FileAC, <<Blk(1, MaxCount)>>)>>,
      <<NIL, Profile(FileEmpty, <<Blk(MaxStmt, 1)>>)>>,
      <<Profile(FileBC, <<>>), NIL, Profile(FileAC, <<Blk(MaxStmt, 0), Blk(1, 1)>>)>> }

InitCommon ==
    /\ pc = "call"
    /\ seqI = 0
    /\ seqB = 0
    /\ seqDir = <<>>
    /\ coverageByDir = EmptyMap
    /\ sendI = 0
    /\ profileChan = NoChan
    /\ resultChan = NoChan
    /\ workers = <<>>
    /\ wg = 0
    /\ waiter = "none"
    /\ finalCoverage = EmptyMap
    /\ ret = NONE
    /\ merged = 0
    /\ finalAlloc = EmptyMap
    /\ call = NoCall
    /\ out = NONE

InitShort ==
    /\ level \in Levels
    /\ ignorePatterns \in PatternLists
    /\ profiles \in ShortLists
    /\ entry \in {"Aggregate", "AggregateConcurrent"}
    /\ InitCommon

InitPool ==
    /\ \E c \in {<<0, <<>> >>, <<1, << <<"b">> >> >>} :
          level = c[1] /\ ignorePatterns = c[2]
    /\ profiles \in {Pad(h) : h \in PoolHeads}
    /\ entry \in {"Aggregate", "AggregateConcurrent"}
    /\ InitCommon

Init == InitShort \/ InitPool

Next ==
    \/ CallAggregate
    \/ CallConcurrentSmall
    \/ CallConcurrentPool
    \/ SeqReturn
    \/ SeqNilDeref
    \/ SeqProfile
    \/ SeqBlock
    \/ SendProfile
    \/ CloseProfileChan
    \/ \E w \in DOMAIN workers : WorkerSkipNil(w)
    \/ \E w \in DOMAIN workers : WorkerProcess(w)
    \/ \E w \in DOMAIN workers : WorkerSend(w)
    \/ \E w \in DOMAIN workers : WorkerExit(w)
    \/ WaiterClose
    \/ MergeOne
    \/ MergeReturn

Spec == Init /\ [][Next]_vars


-----------------------------------------------------------------------------
(* Calls of the path functions on their own                                *)

MaxDirLen == 5
MaxPatLen == 3

DirChars == {"a", "b", "/"}
PatChars == {"a", "/", "*", "["}

Strs(chars, n) == UNION {[1..k -> chars] : k \in 0..n}

\* The directories filepath.Dir can return (cleaned paths), relative and
\* absolute, with "." and a directory holding a '['.
DirInputs ==
    {d \in Strs(DirChars, MaxDirLen) : d # <<>> /\ Clean(d) = d}
        \cup {<<".">>, <<"[", "/", "a">>}

PatternInputs ==
    {<<p>> : p \in Strs(PatChars, MaxPatLen)}
        \cup { <<>>,
               << <<>>, <<"a">> >>,
               << <<"[">>, <<"a", "/", "*">> >>,
               << <<"b", "/", "*">>, <<"*", "/", "a">> >> }

InitIdle ==
    /\ pc = "fn"
    /\ entry = "none"
    /\ profiles = <<>>
    /\ seqI = 0
    /\ seqB = 0
    /\ seqDir = <<>>
    /\ coverageByDir = EmptyMap
    /\ sendI = 0
    /\ profileChan = NoChan
    /\ resultChan = NoChan
    /\ workers = <<>>
    /\ wg = 0
    /\ waiter = "none"
    /\ finalCoverage = EmptyMap
    /\ ret = NONE
    /\ merged = 0
    /\ finalAlloc = EmptyMap
    /\ out = NONE

InitPath ==
    /\ InitIdle
    /\ \/ /\ level \in Levels
          /\ ignorePatterns = <<>>
          /\ call \in {[fn |-> "adjustDirectoryLevel", dir |-> d] :
                          d \in DirInputs}
       \/ /\ level = 0
          /\ ignorePatterns \in PatternInputs
          /\ call \in {[fn |-> "ShouldIgnoreDirectory", dir |-> d] :
                          d \in DirInputs}

\* a.adjustDirectoryLevel(dir)
CallAdjustDirectoryLevel ==
    /\ pc = "fn"
    /\ call.fn = "adjustDirectoryLevel"
    /\ out = NONE
    /\ out' = Str(adjustDirectoryLevel(level, call.dir))
    /\ UNCHANGED <<aggVars, call>>

\* ShouldIgnoreDirectory(dir, patterns)
CallShouldIgnoreDirectory ==
    /\ pc = "fn"
    /\ call.fn = "ShouldIgnoreDirectory"
    /\ out = NONE
    /\ out' = Bool(ShouldIgnoreDirectory(call.dir, ignorePatterns))
    /\ UNCHANGED <<aggVars, call>>

NextPath == CallAdjustDirectoryLevel \/ CallShouldIgnoreDirectory

SpecPath == InitPath /\ [][NextPath]_vars

-----------------------------------------------------------------------------
(* Calls of CalculateCoverage and FilterDirectories on their own           *)

MaxTotal == 10
MaxKeys == 3

Floats(v) == [kind |-> "float64", v |-> v]
Strings(v) == [kind |-> "strings", v |-> v]

KeyInputs ==
    { <<"a", "/", "b">>, <<"a", "b">>, <<"b">> }

\* (StmtCount, StmtCovered) of the entries
CountInputs ==
    { <<0, 0>>, <<MaxTotal, 5>>, <<2, 1>>, <<MaxTotal, 8>>, <<MaxTotal, 2>> }

MapInputs ==
    UNION { {[d \in K |-> [Dir |-> d, StmtCount |-> c[d][1],
                           StmtCovered |-> c[d][2]]] :
                c \in [K -> CountInputs]} :
            K \in {K \in SUBSET KeyInputs : Cardinality(K) <= MaxKeys} }

\* 0, 49.9, 50, 50.1, 100
BoundInputs == {FZero, FTenths(499), FInt(50), FTenths(501), FInt(100)}

\* the orders in which a range over the map can visit its keys
Orders(K) ==
    {o \in [1..Cardinality(K) -> K] : \A i, j \in DOMAIN o : o[i] = o[j] => i = j}

InitCov ==
    /\ InitIdle
    /\ level = 0
    /\ ignorePatterns = <<>>
    /\ \/ call \in {[fn |-> "CalculateCoverage", stmtCount |-> t,
                     stmtCovered |-> c] : t \in 0..MaxTotal, c \in 0..MaxTotal}
       \/ call \in {[fn |-> "FilterDirectories", coverageByDir |-> m,
                     minCoverage |-> lo, maxCoverage |-> hi] :
                       m \in MapInputs, lo \in BoundInputs, hi \in BoundInputs}

\* CalculateCoverage(stmtCount, stmtCovered)
CallCalculateCoverage ==
    /\ pc = "fn"
    /\ call.fn = "CalculateCoverage"
    /\ out = NONE
    /\ out' = Floats(CalculateCoverage(call.stmtCount, call.stmtCovered))
    /\ UNCHANGED <<aggVars, call>>

\* FilterDirectories(coverageByDir, minCoverage, maxCoverage); the order of
\* a range over a map is not specified
CallFilterDirectories ==
    /\ pc = "fn"
    /\ call.fn = "FilterDirectories"
    /\ out = NONE
    /\ \E order \in Orders(DOMAIN call.coverageByDir) :
          out' = Strings(FilterDirectories(call.coverageByDir, order,
                                           call.minCoverage, call.maxCoverage))
    /\ UNCHANGED <<aggVars, call>>

NextCov == CallCalculateCoverage \/ CallFilterDirectories

SpecCov == InitCov /\ [][NextCov]_vars

-----------------------------------------------------------------------------
(* Definitions used by the properties                                      *)

Ended == pc \in {"done", "panic"}

HasNil(ps) == \E i \in 1..Len(ps) : ps[i] = NIL

RECURSIVE RemoveNil(_)
RemoveNil(ps) ==
    IF ps = <<>> THEN <<>>
    ELSE IF Head(ps) = NIL THEN RemoveNil(Tail(ps))
    ELSE <<Head(ps)>> \o RemoveNil(Tail(ps))

CovOK(cov) == 0 <= cov.StmtCovered /\ cov.StmtCovered <= cov.StmtCount

MapOK(m) == \A d \in DOMAIN m : CovOK(m[d])

\* sums over the blocks of a profile
RECURSIVE StmtTotal(_)
StmtTotal(blocks) ==
    IF blocks = <<>> THEN 0 ELSE Head(blocks).NumStmt + StmtTotal(Tail(blocks))

RECURSIVE StmtHit(_)
StmtHit(blocks) ==
    IF blocks = <<>> THEN 0
    ELSE (IF Head(blocks).Count > 0 THEN Head(blocks).NumStmt ELSE 0)
         + StmtHit(Tail(blocks))

RECURSIVE SumTotal(_, _)
SumTotal(S, ps) ==
    IF S = {} THEN 0
    ELSE LET i == CHOOSE i \in S : TRUE
         IN  StmtTotal(ps[i].Blocks) + SumTotal(S \ {i}, ps)

RECURSIVE SumHit(_, _)
SumHit(S, ps) ==
    IF S = {} THEN 0
    ELSE LET i == CHOOSE i \in S : TRUE
         IN  StmtHit(ps[i].Blocks) + SumHit(S \ {i}, ps)

\* the profiles that are not ignored, and the key each one lands on
Contributing(ps, pats) ==
    {i \in 1..Len(ps) : ~ShouldIgnoreDirectory(Dir(ps[i].FileName), pats)}

KeyOf(ps, i, lvl) == adjustDirectoryLevel(lvl, Dir(ps[i].FileName))

ExpectedMap(ps, lvl, pats) ==
    LET C == Contributing(ps, pats)
    IN  [k \in {KeyOf(ps, i, lvl) : i \in C} |->
            LET G == {i \in C : KeyOf(ps, i, lvl) = k}
            IN  [Dir |-> k,
                 StmtCount |-> SumTotal(G, ps),
                 StmtCovered |-> SumHit(G, ps)]]

-----------------------------------------------------------------------------
(* Properties                                                              *)

\* C1: AggregateConcurrent returns exactly what Aggregate returns on the
\* same profiles, level and patterns, nil entries included, below and
\* above the threshold.
C1_ConcurrentEqualsAggregate ==
    (entry = "AggregateConcurrent" /\ Ended)
        => ret = Aggregate(profiles, level, ignorePatterns)

\* C2: Aggregate skips nil entries: on a list with nil entries it ends
\* normally with the map of the list without them.
C2_AggregateSkipsNil ==
    (entry = "Aggregate" /\ Ended /\ HasNil(profiles))
        => /\ pc = "done"
           /\ ret = Aggregate(RemoveNil(profiles), level, ignorePatterns)

\* C3: every DirCoverage entry of every map of a run (Aggregate's map, each
\* worker's partial map at every step of its block loop, the results in
\* flight, the combined map after every merge) has
\* 0 <= StmtCovered <= StmtCount.
C3_CoveredAtMostTotal ==
    /\ MapOK(coverageByDir)
    /\ MapOK(finalCoverage)
    /\ \A w \in DOMAIN workers : MapOK(workers[w].result)
    /\ \A i \in 1..Len(resultChan.buf) : MapOK(resultChan.buf[i])
    /\ \A i \in 1..Len(profiles) :
          profiles[i] # NIL =>
             \A n \in 0..Len(profiles[i].Blocks) :
                CovOK(AddBlocks(NewDirCoverage(<<>>), profiles[i].Blocks, n))

C3_Witness ==
    /\ pc = "merge"
    /\ merged >= 2
    /\ \E d \in DOMAIN finalCoverage :
          /\ 0 < finalCoverage[d].StmtCovered
          /\ finalCoverage[d].StmtCovered < finalCoverage[d].StmtCount
    /\ \E w \in DOMAIN workers :
          \E d \in DOMAIN workers[w].result :
             workers[w].result[d].StmtCount > 0

\* C4: the keys of Aggregate's result are the level-adjusted directories of
\* the profiles whose unadjusted directory is not ignored; StmtCount is the
\* sum of NumStmt over their blocks, StmtCovered the sum over their blocks
\* with Count > 0.
C4_AggregateResult ==
    (entry = "Aggregate" /\ pc = "done")
        => ret = Returned(ExpectedMap(profiles, level, ignorePatterns))

C4_Witness ==
    /\ entry = "Aggregate"
    /\ pc = "done"
    /\ level = 1
    /\ Len(profiles) = 2
    /\ Cardinality(Contributing(profiles, ignorePatterns)) = 1
    /\ ShouldIgnoreDirectory(Dir(profiles[1].FileName), ignorePatterns)
    /\ ~ShouldIgnoreDirectory(KeyOf(profiles, 1, level), ignorePatterns)
    /\ \E d \in DOMAIN ret.m :
          0 < ret.m[d].StmtCovered /\ ret.m[d].StmtCovered < ret.m[d].StmtCount


\* C7: with the ignore patterns ["*"], the result is empty for every
\* non-empty list of profiles, whatever their directories and the level.
C7_StarIgnoresAll ==
    (pc = "done" /\ ignorePatterns = << <<"*">> >> /\ profiles # <<>>)
        => ret = Returned(EmptyMap)

C7_Witness ==
    /\ entry = "Aggregate"
    /\ pc = "done"
    /\ ignorePatterns = << <<"*">> >>
    /\ level = 1
    /\ Len(profiles) = 2
    /\ Len(Split(Dir(profiles[1].FileName))) = 3
    /\ Len(Split(Dir(profiles[2].FileName))) = 1
    /\ ret = Returned(EmptyMap)

\* C10: in the worker pool (more than 10 entries) a nil profile is skipped:
\* no result is produced for it, the call ends normally with a map, the map
\* is the one of the list without the nil entries, and a profile with an
\* empty file name contributes under "." (unless "." is ignored).
C10_PoolSkipsNil ==
    (entry = "AggregateConcurrent" /\ Len(profiles) > ConcurrencyThreshold
        /\ Ended)
        => /\ pc = "done"
           /\ ret.kind = "map"
           /\ merged = Len(RemoveNil(profiles))
           /\ ret = Aggregate(RemoveNil(profiles), level, ignorePatterns)
           /\ \A i \in 1..Len(profiles) :
                 (/\ profiles[i] # NIL
                  /\ profiles[i].FileName = <<>>
                  /\ ~ShouldIgnoreDirectory(<<".">>, ignorePatterns))
                    => /\ <<".">> \in DOMAIN ret.m
                       /\ ret.m[<<".">>].StmtCount
                             >= StmtTotal(profiles[i].Blocks)

C10_Witness ==
    /\ entry = "AggregateConcurrent"
    /\ Len(profiles) > ConcurrencyThreshold
    /\ pc = "done"
    /\ HasNil(profiles)
    /\ \E i \in 1..Len(profiles) :
          profiles[i] # NIL /\ profiles[i].FileName = <<>>
    /\ <<".">> \in DOMAIN ret.m
    /\ ret.m[<<".">>].StmtCount > 0
    /\ merged = Len(profiles) - 1


\* C5: adjustDirectoryLevel returns the directory unmodified for level 0,
\* "." for level -1 and, for level N > 0, the first N slash-separated
\* components joined by '/' (the directory unmodified when it has N or
\* fewer), for relative and absolute directories.
FirstComponents(lvl, dir) ==
    IF lvl = 0 THEN dir
    ELSE IF lvl = -1 THEN <<".">>
    ELSE IF Len(Split(dir)) <= lvl THEN dir
    ELSE StringsJoin(SubSeq(Split(dir), 1, lvl))

C5_AdjustDirectoryLevel ==
    (call.fn = "adjustDirectoryLevel" /\ out # NONE)
        => out = Str(FirstComponents(level, call.dir))

\* C6 as stated: ShouldIgnoreDirectory is true exactly when some non-empty
\* pattern (a) glob-matches the directory, (b) contains '/' and, with its
\* '*' characters stripped, is a substring of the directory, (c)
\* glob-matches one path component, or (d) glob-matches the join of the
\* first k components.
StripStars(s) == SelectSeq(s, LAMBDA c : c # "*")

Globs(pattern, name) == Match(pattern, name) = MATCH

PartsMatch(pattern, dir) ==
    LET parts == Split(dir)
    IN  \E k \in 1..Len(parts) :
           \/ Globs(pattern, parts[k])
           \/ Globs(pattern, Join(SubSeq(parts, 1, k)))

C6_IgnoreIffStripped ==
    (call.fn = "ShouldIgnoreDirectory" /\ out # NONE)
        => out.v = (\E n \in 1..Len(ignorePatterns) :
                      LET p == ignorePatterns[n] IN
                      /\ p # <<>>
                      /\ \/ Globs(p, call.dir)
                         \/ /\ HasChar(p, Separator)
                            /\ Contains(call.dir, StripStars(p))
                         \/ PartsMatch(p, call.dir))

\* C6 as amended: the pattern must also be a well-formed glob, and in (b)
\* only the leading and trailing '*' characters are removed.
WellFormed(pattern) == Match(pattern, <<>>) # ERRBAD

C6_IgnoreIffTrimmed ==
    (call.fn = "ShouldIgnoreDirectory" /\ out # NONE)
        => out.v = (\E n \in 1..Len(ignorePatterns) :
                      LET p == ignorePatterns[n] IN
                      /\ p # <<>>
                      /\ WellFormed(p)
                      /\ \/ Globs(p, call.dir)
                         \/ /\ HasChar(p, Separator)
                            /\ Contains(call.dir, Trim(p))
                         \/ PartsMatch(p, call.dir))

C6_Witness ==
    /\ call.fn = "ShouldIgnoreDirectory"
    /\ call.dir = <<"b", "/", "a", "/", "b">>
    /\ ignorePatterns = << <<"a">> >>
    /\ out = Bool(TRUE)


\* C8: FilterDirectories returns exactly the keys whose coverage percentage
\* lies in [min, max], both bounds inclusive and zero statements counting
\* as 0%, each key once, in ascending order; an entry at exactly 50% is
\* returned for min = max = 50 and not for min = 50.1 or max = 49.9.
Range(seq) == {seq[i] : i \in DOMAIN seq}

C8_FilterDirectories ==
    (call.fn = "FilterDirectories" /\ out # NONE)
        => LET m == call.coverageByDir
               lo == call.minCoverage
               hi == call.maxCoverage
               pct(d) == CalculateCoverage(m[d].StmtCount, m[d].StmtCovered)
           IN  /\ Range(out.v) = {d \in DOMAIN m :
                                     FLeq(lo, pct(d)) /\ FLeq(pct(d), hi)}
               /\ Len(out.v) = Cardinality(Range(out.v))
               /\ \A i, j \in DOMAIN out.v : i < j => StrLess(out.v[i], out.v[j])
               /\ \A d \in DOMAIN m :
                     /\ m[d].StmtCount = 0 => (d \in Range(out.v) <=> lo = FZero)
                     /\ (m[d].StmtCount > 0
                            /\ 2 * m[d].StmtCovered = m[d].StmtCount)
                        => /\ (lo = FInt(50) /\ hi = FInt(50))
                                 => d \in Range(out.v)
                           /\ (lo = FTenths(501) \/ hi = FTenths(499))
                                 => d \notin Range(out.v)

C8_Witness ==
    /\ call.fn = "FilterDirectories"
    /\ out # NONE
    /\ call.minCoverage = FInt(50)
    /\ call.maxCoverage = FInt(50)
    /\ Cardinality(DOMAIN call.coverageByDir) = 3
    /\ out.v = << <<"a", "/", "b">>, <<"a", "b">> >>

\* C9: CalculateCoverage returns covered/total*100 when total > 0 and
\* exactly 0 when total is 0: (0,0) gives 0, (10,10) gives 100, (10,7)
\* gives 70, (10,0) gives 0.
C9_CalculateCoverage ==
    (call.fn = "CalculateCoverage" /\ out # NONE)
        => LET t == call.stmtCount
               c == call.stmtCovered
           IN  /\ ~out.v.nan
               /\ t = 0 => out.v = FZero
               /\ t > 0 => out.v = FMulInt(FDivInt(c, t), 100)
               /\ (t = 10 /\ c = 10) => out.v = FInt(100)
               /\ (t = 10 /\ c = 7) => out.v = FInt(70)
               /\ (t = 10 /\ c = 0) => out.v = FZero

C9_Witness ==
    /\ call.fn = "CalculateCoverage"
    /\ call.stmtCount = 10
    /\ call.stmtCovered = 7
    /\ out = Floats(FInt(70))

-----------------------------------------------------------------------------
(* diff.go                                                                 *)

\* strings.HasPrefix(s, prefix)
HasPrefix(s, prefix) ==
    Len(s) >= Len(prefix) /\ SubSeq(s, 1, Len(prefix)) = prefix

\* strings.HasSuffix(s, suffix)
HasSuffix(s, suffix) ==
    Len(s) >= Len(suffix)
        /\ SubSeq(s, Len(s) - Len(suffix) + 1, Len(s)) = suffix

\* strings.TrimPrefix(s, prefix)
TrimPrefix(s, prefix) ==
    IF HasPrefix(s, prefix) THEN SubSeq(s, Len(prefix) + 1, Len(s)) ELSE s

\* strings.Split(s, sep) for a one-character separator
RECURSIVE SplitOn(_, _)
SplitOn(s, sep) ==
    IF ~HasChar(s, sep) THEN <<s>>
    ELSE LET i == CHOOSE i \in 1..Len(s) :
                     s[i] = sep /\ \A j \in 1..(i - 1) : s[j] # sep
         IN  <<SubSeq(s, 1, i - 1)>> \o SplitOn(SubSeq(s, i + 1, Len(s)), sep)

Digits == <<"0", "1", "2", "3", "4", "5", "6", "7", "8", "9">>

IsDigit(c) == \E i \in 1..Len(Digits) : Digits[i] = c

DigitVal(c) == (CHOOSE i \in 1..Len(Digits) : Digits[i] = c) - 1

\* value of a sequence of decimal digits
RECURSIVE DecimalVal(_)
DecimalVal(ds) ==
    IF ds = <<>> THEN 0
    ELSE 10 * DecimalVal(SubSeq(ds, 1, Len(ds) - 1)) + DigitVal(ds[Len(ds)])

\* n, _ := strconv.Atoi(s): an optional sign and at least one digit; the
\* value is 0 when s is not a number
Atoi(s) ==
    LET signed == s # <<>> /\ s[1] \in {"+", "-"}
        ds == IF signed THEN Tail(s) ELSE s
    IN  IF ds = <<>> \/ \E i \in 1..Len(ds) : ~IsDigit(ds[i]) THEN 0
        ELSE IF signed /\ s[1] = "-" THEN 0 - DecimalVal(ds)
        ELSE DecimalVal(ds)

\* strconv.Itoa(n) for n >= 0
RECURSIVE Itoa(_)
Itoa(n) ==
    IF n < 10 THEN <<Digits[n + 1]>>
    ELSE Itoa(n \div 10) \o <<Digits[(n % 10) + 1]>>

HunkInfo(oldStart, oldCount, newStart, newCount) ==
    [OldStart |-> oldStart, OldCount |-> oldCount,
     NewStart |-> newStart, NewCount |-> newCount]

\* a start[,count] field after its sign is trimmed: (start, count)
StartCount(info) ==
    LET fields == SplitOn(info, ",")
    IN  <<Atoi(fields[1]), IF Len(fields) > 1 THEN Atoi(fields[2]) ELSE 1>>

\* parseHunkHeader(header): nil or the HunkInfo
parseHunkHeader(header) ==
    LET parts == SplitOn(header, " ")
    IN  IF ~HasPrefix(header, <<"@", "@">>) THEN NIL
        ELSE IF Len(parts) < 3 THEN NIL
        ELSE LET old == StartCount(TrimPrefix(parts[2], <<"-">>))
                 new == StartCount(TrimPrefix(parts[3], <<"+">>))
             IN  HunkInfo(old[1], old[2], new[1], new[2])

Plus == <<"+">>
Minus == <<"-">>
TriplePlus == <<"+", "+", "+">>
TripleMinus == <<"-", "-", "-">>
Backslash == <<"\\">>
AtAt == <<"@", "@">>
NewFilePrefix == <<"+", "+", "+", " ", "b", "/">>

DiffLine(file, lineNum) ==
    [File |-> file, LineNum |-> lineNum, ChangeType |-> "added"]

\* the loop of getAddedLinesFromHunk from allLines[i] on
RECURSIVE AddedLinesFrom(_, _, _, _, _, _)
AddedLinesFrom(allLines, i, currentLine, linesProcessed, newCount, addedLines) ==
    IF ~(i <= Len(allLines) /\ linesProcessed < newCount) THEN addedLines
    ELSE LET line == allLines[i] IN
         IF HasPrefix(line, AtAt) THEN addedLines
         ELSE IF HasPrefix(line, Plus) /\ ~HasPrefix(line, TriplePlus)
              THEN AddedLinesFrom(allLines, i + 1, currentLine + 1,
                                  linesProcessed + 1, newCount,
                                  Append(addedLines, currentLine))
         ELSE IF HasPrefix(line, Minus) /\ ~HasPrefix(line, TripleMinus)
              THEN AddedLinesFrom(allLines, i + 1, currentLine,
                                  linesProcessed, newCount, addedLines)
         ELSE IF ~HasPrefix(line, Backslash)
              THEN AddedLinesFrom(allLines, i + 1, currentLine + 1,
                                  linesProcessed + 1, newCount, addedLines)
         ELSE AddedLinesFrom(allLines, i + 1, currentLine, linesProcessed,
                             newCount, addedLines)

\* getAddedLinesFromHunk(allLines, hunkHeader, info); the header is looked
\* up as the first line equal to it
getAddedLinesFromHunk(allLines, hunkHeader, info) ==
    IF \A i \in 1..Len(allLines) : allLines[i] # hunkHeader THEN <<>>
    ELSE LET hunkIndex == CHOOSE i \in 1..Len(allLines) :
                              /\ allLines[i] = hunkHeader
                              /\ \A j \in 1..(i - 1) : allLines[j] # hunkHeader
         IN  AddedLinesFrom(allLines, hunkIndex + 1, info.NewStart, 0,
                            info.NewCount, <<>>)

\* the scanner loop of parseFileDiff from lines[i] on
RECURSIVE ParseFileDiffFrom(_, _, _, _, _, _)
ParseFileDiffFrom(filename, lines, i, currentNewLine, inHunk, result) ==
    IF i > Len(lines) THEN result
    ELSE LET line == lines[i] IN
         IF HasPrefix(line, AtAt)
         THEN LET info == parseHunkHeader(line) IN
              IF info # NIL
              THEN ParseFileDiffFrom(filename, lines, i + 1, info.NewStart,
                                     TRUE, result)
              ELSE ParseFileDiffFrom(filename, lines, i + 1, currentNewLine,
                                     inHunk, result)
         ELSE IF ~inHunk
              THEN ParseFileDiffFrom(filename, lines, i + 1, currentNewLine,
                                     inHunk, result)
         ELSE IF HasPrefix(line, Plus) /\ ~HasPrefix(line, TriplePlus)
              THEN ParseFileDiffFrom(filename, lines, i + 1,
                                     currentNewLine + 1, inHunk,
                                     Append(result,
                                            DiffLine(filename, currentNewLine)))
         ELSE IF HasPrefix(line, Minus) /\ ~HasPrefix(line, TripleMinus)
              THEN ParseFileDiffFrom(filename, lines, i + 1, currentNewLine,
                                     inHunk, result)
         ELSE IF ~HasPrefix(line, Backslash)
              THEN ParseFileDiffFrom(filename, lines, i + 1,
                                     currentNewLine + 1, inHunk, result)
         ELSE ParseFileDiffFrom(filename, lines, i + 1, currentNewLine,
                                inHunk, result)

\* parseFileDiff(filename, diffContent), the content as the scanner's lines
parseFileDiff(filename, lines) ==
    ParseFileDiffFrom(filename, lines, 1, 0, FALSE, <<>>)

\* (variant: the entries do not carry the current file)
HunkDiffLinesNoFile(currentFile, addedLines) ==
    [k \in 1..Len(addedLines) |-> DiffLine(<<>>, addedLines[k])]

\* the DiffLines of one hunk of the bulk document
HunkDiffLines(currentFile, addedLines) ==
    [k \in 1..Len(addedLines) |-> DiffLine(currentFile, addedLines[k])]

\* the parse loop of GetGitDiff from lines[i] on
RECURSIVE GetGitDiffFrom(_, _, _, _)
GetGitDiffFrom(lines, i, currentFile, diffLines) ==
    IF i > Len(lines) THEN diffLines
    ELSE LET line == lines[i] IN
         IF HasPrefix(line, NewFilePrefix)
         THEN GetGitDiffFrom(lines, i + 1, TrimPrefix(line, NewFilePrefix),
                             diffLines)
         ELSE IF HasPrefix(line, AtAt) /\ currentFile # <<>>
                    /\ parseHunkHeader(line) # NIL
              THEN GetGitDiffFrom(lines, i + 1, currentFile,
                       diffLines \o
                       HunkDiffLines(currentFile,
                           getAddedLinesFromHunk(lines, line,
                                                 parseHunkHeader(line))))
         ELSE GetGitDiffFrom(lines, i + 1, currentFile, diffLines)

\* GetGitDiff on the lines of the output of git diff --unified=0
GetGitDiff(lines) == GetGitDiffFrom(lines, 1, <<>>, <<>>)

GoSuffix == <<".", "g", "o">>

\* GetGitDiffWithContext: changedFiles are the names git lists, fileDiff[f]
\* the lines of git's diff of file f
RECURSIVE GetGitDiffWithContext(_, _)
GetGitDiffWithContext(changedFiles, fileDiff) ==
    IF changedFiles = <<>> THEN <<>>
    ELSE LET file == Head(changedFiles)
             rest == GetGitDiffWithContext(Tail(changedFiles), fileDiff)
         IN  IF file = <<>> \/ ~HasSuffix(file, GoSuffix) THEN rest
             ELSE parseFileDiff(file, fileDiff[file]) \o rest

-----------------------------------------------------------------------------
(* What git prints for a change set                                        *)

\* lines of context of git diff when --unified is not given
GitContext == 3

\* A change of a file: del lines removed and add lines inserted so that
\* the first inserted line is line pos of the new file; text is the
\* content of the first inserted line.
Change(pos, del, add, text) ==
    [pos |-> pos, del |-> del, add |-> add, text |-> text]

\* start[,count] of a hunk header; git leaves out a count of 1
HunkRange(start, count) ==
    IF count = 1 THEN Itoa(start) ELSE Itoa(start) \o <<",">> \o Itoa(count)

HunkHeaderLine(oldStart, oldCount, newStart, newCount) ==
    <<"@", "@", " ", "-">> \o HunkRange(oldStart, oldCount) \o <<" ", "+">>
        \o HunkRange(newStart, newCount) \o <<" ", "@", "@">>

ContextLine == <<" ", "x">>
DeletedLine == <<"-", "x">>
AddedLine(text) == Plus \o text

Repeat(line, n) == [i \in 1..n |-> line]

AddedLines(c) ==
    [i \in 1..c.add |-> IF i = 1 THEN AddedLine(c.text) ELSE AddedLine(<<"x">>)]

\* lines inserted minus lines removed by the changes before the k-th
RECURSIVE Shift(_, _)
Shift(changes, k) ==
    IF k <= 1 THEN 0
    ELSE Shift(changes, k - 1) + changes[k - 1].add - changes[k - 1].del

\* line of the old file at which the k-th change starts
OldPos(changes, k) == changes[k].pos - Shift(changes, k)

\* the hunk of the k-th change with n lines of context; with no context a
\* side without lines names the line before the change
Hunk(changes, k, n) ==
    LET c == changes[k]
        old == OldPos(changes, k)
    IN  << HunkHeaderLine(
               IF n = 0 /\ c.del = 0 THEN old - 1 ELSE old - n,
               c.del + 2 * n,
               IF n = 0 /\ c.add = 0 THEN c.pos - 1 ELSE c.pos - n,
               c.add + 2 * n) >>
           \o Repeat(ContextLine, n) \o Repeat(DeletedLine, c.del)
           \o AddedLines(c) \o Repeat(ContextLine, n)

RECURSIVE Hunks(_, _, _)
Hunks(changes, k, n) ==
    IF k > Len(changes) THEN <<>>
    ELSE Hunk(changes, k, n) \o Hunks(changes, k + 1, n)

\* git diff of one file: its header lines and its hunks
FileDiff(file, changes, n) ==
    << <<"d", "i", "f", "f", " ", "-", "-", "g", "i", "t", " ", "a", "/">> \o file \o <<" ", "b", "/">> \o file,
       <<"-", "-", "-", " ", "a", "/">> \o file,
       NewFilePrefix \o file >>
        \o Hunks(changes, 1, n)

\* a change set: a sequence of [file, changes], in the order git lists them
RECURSIVE BulkDiff(_)
BulkDiff(changeSet) ==
    IF changeSet = <<>> THEN <<>>
    ELSE FileDiff(Head(changeSet).file, Head(changeSet).changes, 0)
            \o BulkDiff(Tail(changeSet))

\* strings.Split(output, "\n") of the bulk output, which ends with "\n"
BulkLines(changeSet) == BulkDiff(changeSet) \o << <<>> >>

\* git diff --name-only, trimmed and split
ChangedFiles(changeSet) ==
    IF changeSet = <<>> THEN << <<>> >>
    ELSE [k \in 1..Len(changeSet) |-> changeSet[k].file]

\* git diff -- file for every file of the change set
FileDiffs(changeSet) ==
    [f \in {changeSet[k].file : k \in 1..Len(changeSet)} |->
        LET k == CHOOSE k \in 1..Len(changeSet) : changeSet[k].file = f
        IN  FileDiff(f, changeSet[k].changes, GitContext)]

-----------------------------------------------------------------------------
(* Calls of the diff parsers on their own                                  *)

MaxAdd == 2
MaxHunkNum == 15

Hunk_(v) == [kind |-> "hunk", v |-> v]
Lines(v) == [kind |-> "lines", v |-> v]

\* the fields of the header lines given to parseHunkHeader: numbers, an
\* empty field and a word
NumberInputs == {Itoa(1), Itoa(MaxHunkNum), <<>>, <<"a">>}

RangeInputs ==
    NumberInputs \cup {n \o <<",">> \o m : n \in NumberInputs, m \in NumberInputs}

JoinSpace(a, b) == a \o <<" ">> \o b

HeaderInputs ==
    LET starts == {AtAt, <<"@">>}
        olds == {sign \o r : sign \in {Minus, <<>>}, r \in RangeInputs}
        news == {sign \o r : sign \in {Plus, <<>>}, r \in RangeInputs}
        three == {JoinSpace(JoinSpace(a, o), n) :
                     a \in starts, o \in olds, n \in news}
    IN  three \cup {JoinSpace(t, AtAt) : t \in three}
              \cup {JoinSpace(t, <<"@", "@", " ", "f">>) : t \in three}
              \cup {AtAt, JoinSpace(AtAt, <<"-", "1">>), <<"n", "o", "t", " ", "a", " ", "h", "u", "n", "k", " ", "h", "e", "a", "d", "e", "r">>}

FirstPos == GitContext + 1
SecondPos == FirstPos + MaxAdd + 2 * GitContext + 2

TextInputs == {<<"x">>, <<"+", "+">>}

FirstChanges ==
    {Change(FirstPos, d, a, t) :
        d \in 0..1, a \in 1..MaxAdd, t \in TextInputs}
        \cup {Change(FirstPos, 1, 0, <<"x">>)}

SecondChanges == {Change(SecondPos, d, 1, <<"x">>) : d \in 0..1}

ChangeLists ==
    {<<c>> : c \in FirstChanges}
        \cup {<<c, d>> : c \in FirstChanges, d \in SecondChanges}

FileA == <<"a", ".", "g", "o">>
FileB == <<"b", ".", "g", "o">>
FileC == <<"c", ".", "m", "d">>

FileChange(f, cl) == [file |-> f, changes |-> cl]

\* git lists the files in ascending order
ChangeSets ==
    { <<>> }
        \cup {<<FileChange(f, cl)>> : f \in {FileA, FileB, FileC}, cl \in ChangeLists}
        \cup {<<FileChange(f[1], cl), FileChange(f[2], dl)>> :
                 f \in {<<FileA, FileB>>, <<FileA, FileC>>, <<FileB, FileC>>},
                 cl \in ChangeLists, dl \in ChangeLists}

\* positions of the hunk header lines of a document
HeaderIndexes(lines) == {i \in 1..Len(lines) : HasPrefix(lines[i], AtAt)}

NthIndex(S, k) == CHOOSE i \in S : Cardinality({j \in S : j < i}) = k - 1

RECURSIVE HunkCount(_)
HunkCount(changeSet) ==
    IF changeSet = <<>> THEN 0
    ELSE Len(Head(changeSet).changes) + HunkCount(Tail(changeSet))

InitDiff ==
    /\ InitIdle
    /\ level = 0
    /\ ignorePatterns = <<>>
    /\ \/ call \in {[fn |-> "parseHunkHeader", header |-> h] :
                       h \in HeaderInputs}
       \/ call \in {[fn |-> "parseFileDiff", filename |-> f, changes |-> cl] :
                       f \in {FileA}, cl \in ChangeLists}
       \/ \E cs \in ChangeSets : \E k \in 1..HunkCount(cs) :
             call = [fn |-> "getAddedLinesFromHunk", changeSet |-> cs,
                     hunk |-> k]
       \/ call \in {[fn |-> "GetGitDiff", changeSet |-> cs, headless |-> h] :
                       cs \in ChangeSets, h \in BOOLEAN}
       \/ call \in {[fn |-> "GetGitDiffWithContext", changeSet |-> cs] :
                       cs \in ChangeSets}

\* parseHunkHeader(header)
CallParseHunkHeader ==
    /\ pc = "fn"
    /\ call.fn = "parseHunkHeader"
    /\ out = NONE
    /\ out' = Hunk_(parseHunkHeader(call.header))
    /\ UNCHANGED <<aggVars, call>>

\* parseFileDiff(filename, diffContent) on git's diff of the file
CallParseFileDiff ==
    /\ pc = "fn"
    /\ call.fn = "parseFileDiff"
    /\ out = NONE
    /\ out' = Lines(parseFileDiff(call.filename,
                        FileDiff(call.filename, call.changes, GitContext)))
    /\ UNCHANGED <<aggVars, call>>

\* getAddedLinesFromHunk(lines, line, hunkInfo) as GetGitDiff calls it for
\* a hunk header of the bulk output
CallGetAddedLinesFromHunk ==
    /\ pc = "fn"
    /\ call.fn = "getAddedLinesFromHunk"
    /\ out = NONE
    /\ LET lines == BulkLines(call.changeSet)
           line == lines[NthIndex(HeaderIndexes(lines), call.hunk)]
       IN  out' = Lines(getAddedLinesFromHunk(lines, line,
                                              parseHunkHeader(line)))
    /\ UNCHANGED <<aggVars, call>>

\* the text GetGitDiff reads: the bulk output of git, or that output from
\* the first hunk header on (the header lines of the first file are not
\* part of the text)
DocLines(c) ==
    LET lines == BulkLines(c.changeSet)
        headerLines == IF c.changeSet = <<>> THEN 0
                       ELSE Len(FileDiff(Head(c.changeSet).file, <<>>, 0))
    IN  IF c.headless THEN SubSeq(lines, headerLines + 1, Len(lines))
        ELSE lines

\* GetGitDiff(baseRef)
CallGetGitDiff ==
    /\ pc = "fn"
    /\ call.fn = "GetGitDiff"
    /\ out = NONE
    /\ out' = Lines(GetGitDiff(DocLines(call)))
    /\ UNCHANGED <<aggVars, call>>

\* GetGitDiffWithContext(baseRef)
CallGetGitDiffWithContext ==
    /\ pc = "fn"
    /\ call.fn = "GetGitDiffWithContext"
    /\ out = NONE
    /\ out' = Lines(GetGitDiffWithContext(ChangedFiles(call.changeSet),
                                          FileDiffs(call.changeSet)))
    /\ UNCHANGED <<aggVars, call>>

NextDiff ==
    \/ CallParseHunkHeader
    \/ CallParseFileDiff
    \/ CallGetAddedLinesFromHunk
    \/ CallGetGitDiff
    \/ CallGetGitDiffWithContext

SpecDiff == InitDiff /\ [][NextDiff]_vars

-----------------------------------------------------------------------------
(* Properties of the diff parsers                                          *)

\* C11: parseHunkHeader returns {oldStart, oldCount, newStart, newCount}
\* for a line of the form @@ -<oldStart>[,<oldCount>]
\* +<newStart>[,<newCount>] @@..., a missing count read as 1, and nil for
\* every other line.
IsNumber(f) == f # <<>> /\ \A i \in 1..Len(f) : IsDigit(f[i])

IsRange(f, sign) ==
    /\ HasPrefix(f, sign)
    /\ LET fs == SplitOn(TrimPrefix(f, sign), ",")
       IN  Len(fs) <= 2 /\ \A i \in 1..Len(fs) : IsNumber(fs[i])

HunkGrammar(header) ==
    LET parts == SplitOn(header, " ")
    IN  /\ Len(parts) >= 4
        /\ parts[1] = AtAt
        /\ IsRange(parts[2], Minus)
        /\ IsRange(parts[3], Plus)
        /\ HasPrefix(parts[4], AtAt)

RangeStart(f) == DecimalVal(SplitOn(Tail(f), ",")[1])

RangeCount(f) ==
    LET fs == SplitOn(Tail(f), ",")
    IN  IF Len(fs) = 1 THEN 1 ELSE DecimalVal(fs[2])

C11_ParseHunkHeader ==
    (call.fn = "parseHunkHeader" /\ out # NONE)
        => LET parts == SplitOn(call.header, " ")
           IN  IF HunkGrammar(call.header)
               THEN out.v = HunkInfo(RangeStart(parts[2]), RangeCount(parts[2]),
                                     RangeStart(parts[3]), RangeCount(parts[3]))
               ELSE out.v = NIL

\* C12: in parseFileDiff and getAddedLinesFromHunk the lines of a hunk, up
\* to the next hunk header or the end of the input, are numbered from the
\* hunk's newStart: a '+' line that is not '+++' gets the counter and
\* increments it, a '-' line that is not '---' and a '\' line change
\* nothing, every other line increments the counter.
HunkBody(lines, i) ==
    LET later == {j \in HeaderIndexes(lines) : j > i}
        stop == IF later = {} THEN Len(lines) + 1
                ELSE CHOOSE j \in later : \A m \in later : j <= m
    IN  SubSeq(lines, i + 1, stop - 1)

RECURSIVE NumberAdded(_, _)
NumberAdded(body, counter) ==
    IF body = <<>> THEN <<>>
    ELSE LET line == Head(body) IN
         IF line # <<>> /\ line[1] = "+" /\ ~HasPrefix(line, TriplePlus)
         THEN <<counter>> \o NumberAdded(Tail(body), counter + 1)
         ELSE IF line # <<>> /\ line[1] = "-" /\ ~HasPrefix(line, TripleMinus)
         THEN NumberAdded(Tail(body), counter)
         ELSE IF line # <<>> /\ line[1] = "\\"
         THEN NumberAdded(Tail(body), counter)
         ELSE NumberAdded(Tail(body), counter + 1)

HunkAdded(lines, i) ==
    NumberAdded(HunkBody(lines, i), RangeStart(SplitOn(lines[i], " ")[3]))

RECURSIVE AllAdded(_, _)
AllAdded(lines, k) ==
    IF k > Cardinality(HeaderIndexes(lines)) THEN <<>>
    ELSE HunkAdded(lines, NthIndex(HeaderIndexes(lines), k))
            \o AllAdded(lines, k + 1)

C12_HunkLineNumbers ==
    /\ (call.fn = "parseFileDiff" /\ out # NONE)
          => LET lines == FileDiff(call.filename, call.changes, GitContext)
             IN  out.v = HunkDiffLines(call.filename, AllAdded(lines, 1))
    /\ (call.fn = "getAddedLinesFromHunk" /\ out # NONE)
          => LET lines == BulkLines(call.changeSet)
             IN  out.v = HunkAdded(lines,
                                   NthIndex(HeaderIndexes(lines), call.hunk))

\* C13: for the same change set GetGitDiff and GetGitDiffWithContext give
\* the same set of DiffLine entries.
C13_StrategiesAgree ==
    (call.fn = "GetGitDiff" /\ ~call.headless /\ out # NONE)
        => Range(out.v) =
              Range(GetGitDiffWithContext(ChangedFiles(call.changeSet),
                                          FileDiffs(call.changeSet)))

-----------------------------------------------------------------------------
(* diff_coverage.go                                                        *)

ProfileBlock(startLine, endLine, count) ==
    [StartLine |-> startLine, EndLine |-> endLine, Count |-> count]

FileProfile(fileName, blocks) == [FileName |-> fileName, Blocks |-> blocks]

\* isLineCovered(profile, lineNum): the first block that holds the line
\* decides
RECURSIVE BlocksCover(_, _)
BlocksCover(blocks, lineNum) ==
    IF blocks = <<>> THEN FALSE
    ELSE IF lineNum >= Head(blocks).StartLine /\ lineNum <= Head(blocks).EndLine
         THEN Head(blocks).Count > 0
    ELSE BlocksCover(Tail(blocks), lineNum)

isLineCovered(profile, lineNum) == BlocksCover(profile.Blocks, lineNum)

\* filepath.Base(path)
RECURSIVE StripSlashes(_)
StripSlashes(path) ==
    IF path # <<>> /\ path[Len(path)] = Separator
    THEN StripSlashes(SubSeq(path, 1, Len(path) - 1))
    ELSE path

Base(path) ==
    IF path = <<>> THEN <<".">>
    ELSE LET p == StripSlashes(path)
             parts == Split(p)
         IN  IF p = <<>> THEN <<Separator>> ELSE parts[Len(parts)]

\* the second loop of FindMatchingProfile from ps[i] on
RECURSIVE FindBySuffix(_, _, _)
FindBySuffix(ps, i, file) ==
    IF i > Len(ps) THEN NIL
    ELSE IF HasSuffix(ps[i].FileName, file) THEN ps[i]
    ELSE IF HasSuffix(ps[i].FileName, <<Separator>> \o file)
         THEN ps[i]
    ELSE IF HasSuffix(file, Base(ps[i].FileName)) THEN ps[i]
    ELSE FindBySuffix(ps, i + 1, file)

\* FindMatchingProfile(profiles, file): the profile found, or nil
FindMatchingProfile(ps, file) ==
    IF \E i \in 1..Len(ps) : ps[i].FileName = file
    THEN ps[CHOOSE i \in 1..Len(ps) :
                     /\ ps[i].FileName = file
                     /\ \A j \in 1..(i - 1) : ps[j].FileName # file]
    ELSE FindBySuffix(ps, 1, file)

DiffCoverageResult(file, totalLines, coveredLines, uncoveredLines, coverage) ==
    [File |-> file, TotalLines |-> totalLines, CoveredLines |-> coveredLines,
     UncoveredLines |-> uncoveredLines, Coverage |-> coverage]

\* fileChanges: the files of the diff and, per file, its line numbers in
\* the order of diff.Lines
ChangedFileSet(diffLines) == {diffLines[i].File : i \in 1..Len(diffLines)}

RECURSIVE ChangedLines(_, _)
ChangedLines(diffLines, file) ==
    IF diffLines = <<>> THEN <<>>
    ELSE IF Head(diffLines).File = file
         THEN <<Head(diffLines).LineNum>> \o ChangedLines(Tail(diffLines), file)
    ELSE ChangedLines(Tail(diffLines), file)

\* coverage of covered lines out of total
LineCoverage(covered, total) ==
    IF total > 0 THEN FMulInt(FDivInt(covered, total), 100) ELSE FZero

\* (variant: a file without a profile is reported without lines)
UnmatchedResultEmpty(file, changedLines) ==
    DiffCoverageResult(file, 0, 0, <<>>, FZero)

\* the result of a file no profile matches
UnmatchedResult(file, changedLines) ==
    DiffCoverageResult(file, Len(changedLines), 0, changedLines, FZero)

\* (variant: the lines counted are the uncovered ones)
MatchedResultCountsUncovered(profile, file, changedLines) ==
    LET uncoveredLines ==
            SelectSeq(changedLines, LAMBDA n : ~isLineCovered(profile, n))
        coveredCount == Len(changedLines) - Len(uncoveredLines)
    IN  DiffCoverageResult(file, Len(uncoveredLines), coveredCount,
                           uncoveredLines,
                           LineCoverage(coveredCount, Len(changedLines)))

\* the result of a file with a matching profile
MatchedResult(profile, file, changedLines) ==
    LET uncoveredLines ==
            SelectSeq(changedLines, LAMBDA n : ~isLineCovered(profile, n))
        coveredCount == Len(changedLines) - Len(uncoveredLines)
    IN  DiffCoverageResult(file, Len(changedLines), coveredCount,
                           uncoveredLines,
                           LineCoverage(coveredCount, Len(changedLines)))

FileResult(ps, file, changedLines) ==
    LET profile == FindMatchingProfile(ps, file)
    IN  IF profile = NIL THEN UnmatchedResult(file, changedLines)
        ELSE MatchedResult(profile, file, changedLines)

\* results of the range over fileChanges, visited in the given order
FileResults(ps, diffLines, order) ==
    [k \in 1..Len(order) |->
        FileResult(ps, order[k], ChangedLines(diffLines, order[k]))]

RECURSIVE SumField(_, _)
SumField(results, field) ==
    IF results = <<>> THEN 0
    ELSE Head(results)[field] + SumField(Tail(results), field)

\* (variant: the lines of files without a profile are left out of the total)
CalculateDiffCoverageMatchedOnly(ps, diffLines, order) ==
    LET results == FileResults(ps, diffLines, order)
        matched == SelectSeq(results,
                       LAMBDA r : FindMatchingProfile(ps, r.File) # NIL)
        totalLines == SumField(matched, "TotalLines")
        totalCovered == SumField(results, "CoveredLines")
    IN  [Results |-> results, TotalLines |-> totalLines,
         CoveredLines |-> totalCovered,
         Coverage |-> LineCoverage(totalCovered, totalLines)]

\* CalculateDiffCoverage(profiles, diff), the range over fileChanges
\* visiting the files in the given order
CalculateDiffCoverage(ps, diffLines, order) ==
    LET results == FileResults(ps, diffLines, order)
        totalLines == SumField(results, "TotalLines")
        totalCovered == SumField(results, "CoveredLines")
    IN  [Results |-> results, TotalLines |-> totalLines,
         CoveredLines |-> totalCovered,
         Coverage |-> LineCoverage(totalCovered, totalLines)]

Ellipsis == <<".", ".", ".">>

\* truncateString(s, maxLen); s[:maxLen-3] with maxLen < 3 is a slice with
\* a negative bound, a run-time panic
truncateString(s, maxLen) ==
    IF Len(s) <= maxLen THEN Str(s)
    ELSE IF maxLen - 3 < 0 THEN PANIC
    ELSE Str(SubSeq(s, 1, maxLen - 3) \o Ellipsis)

-----------------------------------------------------------------------------
(* Calls of the functions of diff_coverage.go on their own                 *)

MaxDiffLines == 3
MaxProfiles == 2
MaxStrLen == 6

Summary(v) == [kind |-> "summary", v |-> v]
Found(v) == [kind |-> "profile", v |-> v]

NameM == <<"m", ".", "g", "o">>
NameCM == <<"c", "/", "m", ".", "g", "o">>
NamePCM == <<"p", "/", "c", "/", "m", ".", "g", "o">>
NameXM == <<"x", "/", "m", ".", "g", "o">>
NameN == <<"n", ".", "g", "o">>

ProfileInputs ==
    { FileProfile(NameM, <<ProfileBlock(3, 3, 1), ProfileBlock(5, 5, 0)>>),
      FileProfile(NamePCM, <<ProfileBlock(3, 5, 0)>>),
      FileProfile(NameXM, <<ProfileBlock(1, 9, 1)>>) }

\* lists of different profiles
ProfileLists ==
    {l \in UNION {[1..n -> ProfileInputs] : n \in 0..MaxProfiles} :
        \A i, j \in DOMAIN l : l[i] = l[j] => i = j}

DiffFileInputs == {NameM, NameCM, NameN}

DiffLineInputs == {DiffLine(f, n) : f \in DiffFileInputs, n \in {3, 5}}

DiffInputs == UNION {[1..n -> DiffLineInputs] : n \in 0..MaxDiffLines}

\* blocks of the profiles given to isLineCovered: blocks apart and blocks
\* that share a line
BlockLists ==
    { <<>>,
      <<ProfileBlock(1, 5, 1), ProfileBlock(10, 15, 0), ProfileBlock(20, 25, 2)>>,
      <<ProfileBlock(10, 12, 0), ProfileBlock(12, 15, 1)>>,
      <<ProfileBlock(10, 12, 1), ProfileBlock(12, 15, 0)>> }

LineInputs == {0, 1, 3, 5, 8, 12, 22, 30}

Letters == <<"a", "b", "c", "d", "e", "f", "g", "h", "i", "j", "k", "l", "m", "n", "o", "p", "q", "r", "s", "t", "u", "v", "w", "x", "y", "z">>

InitDiffCov ==
    /\ InitIdle
    /\ level = 0
    /\ ignorePatterns = <<>>
    /\ \/ call \in {[fn |-> "CalculateDiffCoverage", profiles |-> ps,
                     diff |-> d] : ps \in ProfileLists, d \in DiffInputs}
       \/ call \in {[fn |-> "isLineCovered",
                     profile |-> FileProfile(NameM, b), lineNum |-> n] :
                       b \in BlockLists, n \in LineInputs}
       \/ call \in {[fn |-> "FindMatchingProfile", profiles |-> ps,
                     file |-> f] : ps \in ProfileLists, f \in DiffFileInputs}
       \/ call \in {[fn |-> "truncateString", s |-> SubSeq(Letters, 1, n),
                     maxLen |-> w] : n \in 0..MaxStrLen, w \in 0..MaxStrLen}

\* CalculateDiffCoverage(profiles, diff); the order of the range over the
\* map fileChanges is not specified
CallCalculateDiffCoverage ==
    /\ pc = "fn"
    /\ call.fn = "CalculateDiffCoverage"
    /\ out = NONE
    /\ \E order \in Orders(ChangedFileSet(call.diff)) :
          out' = Summary(CalculateDiffCoverage(call.profiles, call.diff, order))
    /\ UNCHANGED <<aggVars, call>>

\* isLineCovered(profile, lineNum)
CallIsLineCovered ==
    /\ pc = "fn"
    /\ call.fn = "isLineCovered"
    /\ out = NONE
    /\ out' = Bool(isLineCovered(call.profile, call.lineNum))
    /\ UNCHANGED <<aggVars, call>>

\* FindMatchingProfile(profiles, file)
CallFindMatchingProfile ==
    /\ pc = "fn"
    /\ call.fn = "FindMatchingProfile"
    /\ out = NONE
    /\ out' = Found(FindMatchingProfile(call.profiles, call.file))
    /\ UNCHANGED <<aggVars, call>>

\* truncateString(s, maxLen)
CallTruncateString ==
    /\ pc = "fn"
    /\ call.fn = "truncateString"
    /\ out = NONE
    /\ out' = truncateString(call.s, call.maxLen)
    /\ UNCHANGED <<aggVars, call>>

NextDiffCov ==
    \/ CallCalculateDiffCoverage
    \/ CallIsLineCovered
    \/ CallFindMatchingProfile
    \/ CallTruncateString

SpecDiffCov == InitDiffCov /\ [][NextDiffCov]_vars

-----------------------------------------------------------------------------
(* Properties of diff_coverage.go                                          *)

DiffLinesOf(diffLines, file) ==
    {i \in 1..Len(diffLines) : diffLines[i].File = file}

\* C14: CalculateDiffCoverage returns exactly one result for every file
\* with a line in diff.Lines and none for another file; TotalLines is the
\* number of diff lines of the file and Coverage is
\* CoveredLines/TotalLines*100 (0 when TotalLines is 0).
C14_OneResultPerFile ==
    (call.fn = "CalculateDiffCoverage" /\ out # NONE)
        => LET results == out.v.Results IN
           /\ \A f \in ChangedFileSet(call.diff) :
                 Cardinality({k \in 1..Len(results) : results[k].File = f}) = 1
           /\ \A k \in 1..Len(results) :
                 /\ results[k].File \in ChangedFileSet(call.diff)
                 /\ results[k].TotalLines =
                       Cardinality(DiffLinesOf(call.diff, results[k].File))
                 /\ results[k].Coverage =
                       IF results[k].TotalLines = 0 THEN FZero
                       ELSE FMulInt(FDivInt(results[k].CoveredLines,
                                            results[k].TotalLines), 100)

C14_Witness ==
    /\ call.fn = "CalculateDiffCoverage"
    /\ out # NONE
    /\ Len(call.diff) = 3
    /\ Len(out.v.Results) = 2
    /\ \E k \in 1..2 : /\ out.v.Results[k].TotalLines = 2
                       /\ out.v.Results[k].Coverage = FInt(50)

\* C15: a changed file that no profile matches is reported with
\* CoveredLines 0, all its changed lines in UncoveredLines and Coverage 0,
\* and its lines count in the summary's TotalLines.
SomeProfileMatches(ps, file) ==
    \E i \in 1..Len(ps) :
       \/ ps[i].FileName = file
       \/ HasSuffix(ps[i].FileName, file)
       \/ HasSuffix(file, Base(ps[i].FileName))

C15_UnmatchedFileUncovered ==
    (call.fn = "CalculateDiffCoverage" /\ out # NONE)
        => /\ \A k \in 1..Len(out.v.Results) :
                 LET r == out.v.Results[k] IN
                 ~SomeProfileMatches(call.profiles, r.File)
                    => /\ r.CoveredLines = 0
                       /\ r.UncoveredLines = ChangedLines(call.diff, r.File)
                       /\ r.Coverage = FZero
           /\ out.v.TotalLines = Len(call.diff)

C15_Witness ==
    /\ call.fn = "CalculateDiffCoverage"
    /\ out # NONE
    /\ call.profiles # <<>>
    /\ \E k \in 1..Len(out.v.Results) :
          /\ out.v.Results[k].File = NameN
          /\ out.v.Results[k].UncoveredLines = <<3, 5>>
    /\ out.v.TotalLines = 3
    /\ out.v.CoveredLines = 1

\* C16: isLineCovered(profile, n) is true exactly when a block with
\* StartLine <= n <= EndLine has Count > 0.
C16_CoveredIffSomeBlock ==
    (call.fn = "isLineCovered" /\ out # NONE)
        => out.v = (\E i \in 1..Len(call.profile.Blocks) :
                       LET b == call.profile.Blocks[i] IN
                       /\ b.StartLine <= call.lineNum
                       /\ call.lineNum <= b.EndLine
                       /\ b.Count > 0)

\* C17: FindMatchingProfile returns an exact match when the list has one,
\* else a profile whose path ends with the file when the list has one,
\* else a profile with the file's base name, else nil, whatever the order
\* of the list.
C17_MatchPriority ==
    (call.fn = "FindMatchingProfile" /\ out # NONE)
        => LET ps == call.profiles
               file == call.file
               exact == {i \in 1..Len(ps) : ps[i].FileName = file}
               suffix == {i \in 1..Len(ps) : HasSuffix(ps[i].FileName, file)}
               base == {i \in 1..Len(ps) : HasSuffix(file, Base(ps[i].FileName))}
           IN  IF exact # {} THEN \E i \in exact : out.v = ps[i]
               ELSE IF suffix # {} THEN \E i \in suffix : out.v = ps[i]
               ELSE IF base # {} THEN \E i \in base : out.v = ps[i]
               ELSE out.v = NIL

\* C18: UncoveredLines of every result of CalculateDiffCoverage is in
\* ascending order.
C18_UncoveredSorted ==
    (call.fn = "CalculateDiffCoverage" /\ out # NONE)
        => \A k \in 1..Len(out.v.Results) :
              LET u == out.v.Results[k].UncoveredLines
              IN  \A i, j \in 1..Len(u) : i < j => u[i] <= u[j]

\* C19: truncateString(s, w) returns s when len(s) <= w, else the first
\* w-3 characters of s followed by "...", and just "..." for every width
\* of 3 or less.
C19_TruncateString ==
    (call.fn = "truncateString" /\ out # NONE)
        => IF Len(call.s) <= call.maxLen THEN out = Str(call.s)
           ELSE IF call.maxLen <= 3 THEN out = Str(Ellipsis)
           ELSE /\ out = Str(SubSeq(call.s, 1, call.maxLen - 3) \o Ellipsis)
                /\ Len(out.v) <= call.maxLen

-----------------------------------------------------------------------------
(* cli.go: CLI.Run without -diff                                           *)

NilError == [kind |-> "nil"]
ValidationError(field) == [kind |-> "ValidationError", field |-> field]
ConfigError(field) == [kind |-> "ConfigError", field |-> field]
ParseError == [kind |-> "ParseError"]

\* NewThresholdError(threshold, actual)
NewThresholdError(threshold, actual) ==
    [kind |-> "ThresholdError", Threshold |-> threshold, Actual |-> actual]

FLess(x, y) == FLeq(x, y) /\ ~FLeq(y, x)

\* Config.MergeWithFlags for the threshold: a flag other than 0 replaces
\* the value of the configuration file
MergeThreshold(fileThreshold, flagThreshold) ==
    IF flagThreshold # FZero THEN flagThreshold ELSE fileThreshold

\* config.Threshold of the run
ConfigThreshold == MergeThreshold(call.fileThreshold, call.flagThreshold)

\* ValidateCoverageConfig and ValidateThreshold: the field in error, or none
ValidateConfiguration(min, max, threshold) ==
    IF FLess(FInt(100), min) THEN "coverage.min"
    ELSE IF FLess(FInt(100), max) THEN "coverage.max"
    ELSE IF FLess(max, min) THEN "coverage"
    ELSE IF FLess(FInt(100), threshold) THEN "threshold"
    ELSE "none"

CoverageResult(directory, statements, covered) ==
    [Directory |-> directory, Statements |-> statements, Covered |-> covered,
     Coverage |-> CalculateCoverage(statements, covered)]

RECURSIVE SumStmts(_, _, _)
SumStmts(m, dirs, field) ==
    IF dirs = {} THEN 0
    ELSE LET d == CHOOSE d \in dirs : TRUE
         IN  m[d][field] + SumStmts(m, dirs \ {d}, field)

\* (variant: the total is taken over the filtered directories)
TotalResultFiltered(m, filteredDirs) ==
    CoverageResult(<<"TOTAL">>, SumStmts(m, Range(filteredDirs), "StmtCount"),
                   SumStmts(m, Range(filteredDirs), "StmtCovered"))

\* the TOTAL line of displayResults: all directories of the map
TotalResult(m, filteredDirs) ==
    CoverageResult(<<"TOTAL">>, SumStmts(m, DOMAIN m, "StmtCount"),
                   SumStmts(m, DOMAIN m, "StmtCovered"))

\* what displayResults hands to the formatter, which writes it to c.Output
Report(m, filteredDirs, min, max) ==
    [kind |-> "report",
     results |-> [k \in 1..Len(filteredDirs) |->
                     CoverageResult(filteredDirs[k],
                                    m[filteredDirs[k]].StmtCount,
                                    m[filteredDirs[k]].StmtCovered)],
     total |-> TotalResult(m, filteredDirs),
     filteredTotal |->
         IF FLess(FZero, min) \/ FLess(max, FInt(100))
         THEN CoverageResult(<<"FILTERED TOTAL">>,
                             SumStmts(m, Range(filteredDirs), "StmtCount"),
                             SumStmts(m, Range(filteredDirs), "StmtCovered"))
         ELSE NIL]

runVars ==
    <<level, ignorePatterns, profiles, entry, seqI, seqB, seqDir, sendI,
      profileChan, resultChan, workers, wg, waiter, finalCoverage, merged,
      finalAlloc, call>>

\* flags and configuration are merged and validated
RunValidate ==
    /\ pc = "run"
    /\ LET field == ValidateConfiguration(call.min, call.max, ConfigThreshold)
       IN  IF field # "none"
           THEN /\ ret' = ValidationError(field)
                /\ pc' = "done"
           ELSE /\ ret' = ret
                /\ pc' = "parse"
    /\ UNCHANGED <<runVars, coverageByDir, out>>

\* cover.ParseProfiles(coverProfile): the file is read, or cannot be
RunParseProfiles ==
    /\ pc = "parse"
    /\ IF call.parseFails
       THEN /\ ret' = ParseError
            /\ pc' = "done"
       ELSE /\ ret' = ret
            /\ pc' = "aggregate"
    /\ UNCHANGED <<runVars, coverageByDir, out>>

\* the profiles are aggregated; lists of at most ConcurrencyThreshold
\* profiles are aggregated sequentially under -concurrent as well
RunAggregate ==
    /\ pc = "aggregate"
    /\ Len(profiles) <= ConcurrencyThreshold \/ ~call.concurrent
    /\ LET r == Aggregate(profiles, level, ignorePatterns)
       IN  IF r = PANIC
           THEN /\ pc' = "panic"
                /\ UNCHANGED coverageByDir
           ELSE /\ pc' = "formatter"
                /\ coverageByDir' = r.m
    /\ UNCHANGED <<runVars, ret, out>>

\* createFormatter(config.Format)
RunCreateFormatter ==
    /\ pc = "formatter"
    /\ IF call.format \in {"json", "table"}
       THEN /\ pc' = "display"
            /\ ret' = ret
       ELSE /\ pc' = "done"
            /\ ret' = ConfigError("format")
    /\ UNCHANGED <<runVars, coverageByDir, out>>

\* displayResults: the report is written to c.Output
RunDisplayResults ==
    /\ pc = "display"
    /\ \E order \in Orders(DOMAIN coverageByDir) :
          out' = Report(coverageByDir,
                        FilterDirectories(coverageByDir, order,
                                          call.min, call.max),
                        call.min, call.max)
    /\ pc' = "threshold"
    /\ UNCHANGED <<runVars, coverageByDir, ret>>

\* the threshold check on the total coverage displayResults returned
RunCheckThreshold ==
    /\ pc = "threshold"
    /\ LET totalCoverage == out.total.Coverage
       IN  IF FLess(FZero, ConfigThreshold)
                /\ FLess(totalCoverage, ConfigThreshold)
           THEN ret' = NewThresholdError(ConfigThreshold, totalCoverage)
           ELSE ret' = NilError
    /\ pc' = "done"
    /\ UNCHANGED <<runVars, coverageByDir, out>>

\* coverage profiles as cover.ParseProfiles returns them: 2 of 5
\* statements covered in one directory, two directories at 100% and 0%,
\* one directory at 100%, no profile
RunProfileInputs ==
    { <<>>,
      <<Profile(FileAC, <<Blk(1, 1), Blk(1, 1), Blk(1, 0), Blk(1, 0), Blk(1, 0)>>)>>,
      <<Profile(FileAC, <<Blk(1, 1)>>), Profile(FileBC, <<Blk(1, 0)>>)>>,
      <<Profile(FileAC, <<Blk(MaxStmt, MaxCount)>>)>> }

\* 0, 39.9, 40, 40.1, 50, 50.1, 100 and the invalid 101
ThresholdInputs ==
    {FZero, FTenths(399), FInt(40), FTenths(401), FInt(50), FTenths(501),
     FInt(100), FInt(101)}

InitRun ==
    /\ pc = "run"
    /\ entry = "none"
    /\ level = 0
    /\ ignorePatterns \in {<<>>, << <<"b">> >>}
    /\ profiles \in RunProfileInputs
    /\ seqI = 0
    /\ seqB = 0
    /\ seqDir = <<>>
    /\ coverageByDir = EmptyMap
    /\ sendI = 0
    /\ profileChan = NoChan
    /\ resultChan = NoChan
    /\ workers = <<>>
    /\ wg = 0
    /\ waiter = "none"
    /\ finalCoverage = EmptyMap
    /\ ret = NONE
    /\ merged = 0
    /\ finalAlloc = EmptyMap
    /\ out = NONE
    /\ call \in {[fn |-> "Run", min |-> mm[1], max |-> mm[2], format |-> f,
                  concurrent |-> c, flagThreshold |-> t, fileThreshold |-> ft,
                  parseFails |-> pf] :
                    mm \in {<<FZero, FInt(100)>>, <<FInt(50), FInt(100)>>,
                            <<FZero, FTenths(499)>>, <<FInt(50), FZero>>},
                    f \in {"table", "json", "xml"},
                    c \in BOOLEAN,
                    t \in ThresholdInputs,
                    ft \in {FZero, FInt(50)},
                    pf \in BOOLEAN}

NextRun ==
    \/ RunValidate
    \/ RunParseProfiles
    \/ RunAggregate
    \/ RunCreateFormatter
    \/ RunDisplayResults
    \/ RunCheckThreshold

SpecRun == InitRun /\ [][NextRun]_vars

\* C20: Run returns a ThresholdError carrying the threshold and the
\* achieved percentage exactly when the configured threshold is > 0 and
\* the total coverage over all directories is strictly below it; the
\* report is written before the error is returned.
AllStmts(field) == SumStmts(coverageByDir, DOMAIN coverageByDir, field)

TotalCoverage == CalculateCoverage(AllStmts("StmtCount"), AllStmts("StmtCovered"))

InvalidSetting ==
    \/ ValidateConfiguration(call.min, call.max, ConfigThreshold) # "none"
    \/ call.format \notin {"json", "table"}

C21_ErrorsBeforeProcessing ==
    (call.fn = "Run" /\ InvalidSetting)
        => /\ ret.kind # "ParseError"
           /\ pc \notin {"aggregate", "formatter", "display", "threshold"}
           /\ coverageByDir = EmptyMap

-----------------------------------------------------------------------------
(* config.go and cli.go: the configuration of a run                        *)

Config(lvl, min, max, format, ignore, concurrent, threshold) ==
    [Level |-> lvl, Min |-> min, Max |-> max, Format |-> format,
     Ignore |-> ignore, Concurrent |-> concurrent, Threshold |-> threshold]

DefaultConfig == Config(0, FZero, FInt(100), "table", <<>>, FALSE, FZero)

\* a flag of the command line: absent, or present with a value
NotGiven == [given |-> FALSE]
Given(v) == [given |-> TRUE, v |-> v]

\* the variable of a flag after flags.Parse: the value given, else the
\* default the flag was declared with
FlagVar(flag, default) == IF flag.given THEN flag.v ELSE default

\* strings.TrimSpace (the only white space of the model is " ")
RECURSIVE TrimSpace(_)
TrimSpace(s) ==
    IF s # <<>> /\ Head(s) = " " THEN TrimSpace(Tail(s))
    ELSE IF s # <<>> /\ s[Len(s)] = " "
    THEN TrimSpace(SubSeq(s, 1, Len(s) - 1))
    ELSE s

\* the patterns of -ignore: split at commas, each one trimmed
IgnoreList(ignoreDirs) ==
    LET parts == SplitOn(ignoreDirs, ",")
    IN  [i \in 1..Len(parts) |-> TrimSpace(parts[i])]

\* loadConfiguration: the file's configuration (the default one without a
\* file), its Ignore replaced by the patterns of a non-empty -ignore
loadConfiguration(fileConfig, ignoreDirs) ==
    IF ignoreDirs # <<>>
    THEN [fileConfig EXCEPT !.Ignore = IgnoreList(ignoreDirs)]
    ELSE fileConfig

\* Config.MergeWithFlags
MergeWithFlags(c, lvl, minCov, maxCov, format, ignore, concurrent, threshold) ==
    Config(IF lvl # 0 THEN lvl ELSE c.Level,
           IF minCov # FZero THEN minCov ELSE c.Min,
           IF maxCov # FInt(100) THEN maxCov ELSE c.Max,
           IF format # "" THEN format ELSE c.Format,
           IF Len(ignore) > 0 THEN ignore ELSE c.Ignore,
           IF concurrent THEN concurrent ELSE c.Concurrent,
           IF threshold # FZero THEN threshold ELSE c.Threshold)

\* CLI.Run from flags.Parse to the merged configuration
RunConfig(fileConfig, flags) ==
    LET config == loadConfiguration(fileConfig, FlagVar(flags.ignore, <<>>))
    IN  MergeWithFlags(config,
                       FlagVar(flags.level, 0),
                       FlagVar(flags.min, FZero),
                       FlagVar(flags.max, FInt(100)),
                       FlagVar(flags.format, ""),
                       config.Ignore,
                       FlagVar(flags.concurrent, FALSE),
                       FlagVar(flags.threshold, FZero))

-----------------------------------------------------------------------------
(* Runs of the configuration merge on their own                            *)

\* the configuration of a file that sets every key
FileConfig ==
    Config(MaxLevel, FInt(10), FInt(90), "json", << <<"v">> >>, TRUE, FInt(80))

FlagChoices(values) == {NotGiven} \cup {Given(v) : v \in values}

\* each flag is absent, given with its default or given with another value
FlagInputs ==
    {[level |-> l, min |-> mn, max |-> mx, format |-> f, ignore |-> ig,
      concurrent |-> c, threshold |-> t] :
        l \in FlagChoices({0, 1}),
        mn \in FlagChoices({FZero, FInt(20)}),
        mx \in FlagChoices({FInt(100), FInt(70)}),
        f \in FlagChoices({"table"}),
        ig \in FlagChoices({<<>>, <<"a", ",", " ", "b">>}),
        c \in FlagChoices({FALSE, TRUE}),
        t \in FlagChoices({FZero, FInt(60)})}

ConfigResult(c) == [kind |-> "config", v |-> c]

InitConfig ==
    /\ InitIdle
    /\ level = 0
    /\ ignorePatterns = <<>>
    /\ call \in {[fn |-> "RunConfig", fileConfig |-> fc, flags |-> fl] :
                    fc \in {DefaultConfig, FileConfig}, fl \in FlagInputs}
    /\ out = NONE

CallRunConfig ==
    /\ call.fn = "RunConfig"
    /\ out = NONE
    /\ out' = ConfigResult(RunConfig(call.fileConfig, call.flags))
    /\ UNCHANGED <<aggVars, call>>

NextConfig == CallRunConfig

SpecConfig == InitConfig /\ [][NextConfig]_vars

\* C22: every setting given on the command line (level, min, max, format,
\* ignore, concurrent, threshold) has the given value in the merged
\* configuration, whatever the configuration file says and also when the
\* given value equals the default of the flag.
C22_FlagsOverrideFile ==
    (call.fn = "RunConfig" /\ out # NONE)
        => LET fl == call.flags
               c == out.v
           IN  /\ fl.level.given => c.Level = fl.level.v
               /\ fl.min.given => c.Min = fl.min.v
               /\ fl.max.given => c.Max = fl.max.v
               /\ fl.format.given => c.Format = fl.format.v
               /\ fl.ignore.given =>
                     c.Ignore = IF fl.ignore.v = <<>> THEN <<>>
                                ELSE IgnoreList(fl.ignore.v)
               /\ fl.concurrent.given => c.Concurrent = fl.concurrent.v
               /\ fl.threshold.given => c.Threshold = fl.threshold.v

-----------------------------------------------------------------------------
(* The worker pool under fair scheduling                                   *)
(* The Go scheduler runs every goroutine that can take a step: the         *)
(* calling goroutine, each worker and the goroutine that waits for the     *)
(* WaitGroup are weakly fair.                                              *)

\* a profile of a file of the module's root directory
RootProfile == Profile(<<"c">>, <<Blk(1, 1)>>)

FairPad(head, tail) ==
    head \o [i \in 1..(ConcurrencyThreshold + 1 - Len(head) - Len(tail)) |->
                RootProfile]
         \o tail

\* lists of 11 entries: no nil entry, a nil entry first, a nil entry last,
\* nil entries at both ends
FairLists ==
    { FairPad(<<>>, <<>>), FairPad(<<NIL>>, <<>>), FairPad(<<>>, <<NIL>>),
      FairPad(<<NIL>>, <<NIL>>) }

InitPoolRun ==
    /\ level = 0
    /\ ignorePatterns = <<>>
    /\ profiles \in FairLists
    /\ entry = "AggregateConcurrent"
    /\ InitCommon

\* the steps of the calling goroutine
MainStep ==
    \/ CallConcurrentPool
    \/ SendProfile
    \/ CloseProfileChan
    \/ MergeOne
    \/ MergeReturn

\* the steps of worker w
WorkerStep(w) ==
    /\ w \in DOMAIN workers
    /\ \/ WorkerSkipNil(w)
       \/ WorkerProcess(w)
       \/ WorkerSend(w)
       \/ WorkerExit(w)

NextPool ==
    \/ CallConcurrentPool
    \/ SendProfile
    \/ CloseProfileChan
    \/ \E w \in DOMAIN workers : WorkerSkipNil(w)
    \/ \E w \in DOMAIN workers : WorkerProcess(w)
    \/ \E w \in DOMAIN workers : WorkerSend(w)
    \/ \E w \in DOMAIN workers : WorkerExit(w)
    \/ WaiterClose
    \/ MergeOne
    \/ MergeReturn

Fairness ==
    /\ WF_vars(MainStep)
    /\ \A w \in 1..MaxWorkers : WF_vars(WorkerStep(w))
    /\ WF_vars(WaiterClose)

SpecPoolFair == InitPoolRun /\ [][NextPool]_vars /\ Fairness

AllExited == \A w \in DOMAIN workers : workers[w].pc = "exit"

\* C23: for every list of more than 10 entries, nil entries included,
\* AggregateConcurrent terminates under fair scheduling: no send blocks for
\* ever, a worker exits only once the work queue is closed and drained, the
\* result queue is closed only after every worker has exited, and the
\* merge loop then ends and the call returns its map.
C23_PoolTerminates ==
    (pc = "call")
        ~> (/\ pc = "done"
            /\ ret.kind = "map"
            /\ AllExited
            /\ wg = 0
            /\ profileChan.closed /\ profileChan.buf = <<>>
            /\ resultChan.closed /\ resultChan.buf = <<>>)

C23_Witness ==
    /\ entry = "AggregateConcurrent"
    /\ Len(profiles) > ConcurrencyThreshold
    /\ HasNil(profiles)
    /\ pc = "done"
    /\ ret.kind = "map"
    /\ AllExited
    /\ resultChan.closed

-----------------------------------------------------------------------------
(* Properties of the worker pool                                           *)

PoolRun == entry = "AggregateConcurrent" /\ Len(profiles) > ConcurrencyThreshold

C25_Step ==
    (PoolRun /\ pc \in {"send", "merge"})
        => /\ \A w \in DOMAIN workers :
                 workers'[w] # workers[w]
                    => /\ \A v \in DOMAIN workers \ {w} :
                             workers'[v] = workers[v]
                       /\ workers'[w].pc # workers[w].pc
                       /\ finalCoverage' = finalCoverage
                       /\ workers'[w].result # EmptyMap
                             => workers[w].result = EmptyMap
           /\ \/ resultChan'.buf = resultChan.buf
              \/ \E w \in DOMAIN workers :
                    /\ workers[w].pc = "send"
                    /\ resultChan'.buf = Append(resultChan.buf, workers[w].result)
                    /\ workers'[w].result = EmptyMap
              \/ /\ resultChan.buf # <<>>
                 /\ resultChan'.buf = Tail(resultChan.buf)
           /\ finalCoverage' # finalCoverage
                 => /\ pc = "merge"
                    /\ workers' = workers
                    /\ resultChan.buf # <<>>
                    /\ resultChan'.buf = Tail(resultChan.buf)
                    /\ finalCoverage'
                          = MergeResult(finalCoverage, Head(resultChan.buf))
           /\ DOMAIN finalAlloc' = DOMAIN finalCoverage'
           /\ \A d \in DOMAIN finalCoverage' : finalAlloc'[d] = "main"

C25_SingleWriter == [][C25_Step]_vars

\* a directory of the combined map has been updated in place while a
\* worker holds a partial map with an accumulator for the same directory
C25_Witness ==
    /\ PoolRun
    /\ pc = "merge"
    /\ merged >= 2
    /\ \E w \in DOMAIN workers :
          /\ workers[w].pc = "send"
          /\ \E d \in DOMAIN workers[w].result :
                /\ d \in DOMAIN finalCoverage
                /\ finalAlloc[d] = "main"
                /\ finalCoverage[d].StmtCount > workers[w].result[d].StmtCount

\* C26: in the pool every non-nil profile is processed exactly once, by
\* exactly one worker, and exactly one partial result per non-nil profile
\* reaches the merge loop, in every interleaving.  At every moment each
\* non-nil profile is in exactly one place (not yet sent, in the work
\* queue, held as a result by one worker, in the result queue, or merged);
\* the work queue holds profiles of the list in the order of the list; a
\* result is the partial map of a profile of the list; at the end as many
\* results were merged as there are non-nil profiles.
Sending == {w \in DOMAIN workers : workers[w].pc = "send"}

PartialMaps ==
    {processProfile(p, level, ignorePatterns) : p \in Range(profiles) \ {NIL}}

C26_ExactlyOnce ==
    (PoolRun /\ pc \in {"send", "merge", "done"})
        => /\ Len(RemoveNil(SubSeq(profiles, sendI, Len(profiles))))
                + Len(RemoveNil(profileChan.buf))
                + Cardinality(Sending)
                + Len(resultChan.buf)
                + merged
              = Len(RemoveNil(profiles))
           /\ \E k \in 1..sendI :
                 profileChan.buf = SubSeq(profiles, k, sendI - 1)
           /\ LET inFlight == {workers[w].result : w \in Sending}
                                \cup Range(resultChan.buf)
              IN  inFlight # {} => inFlight \subseteq PartialMaps
           /\ pc = "done"
                 => /\ merged = Len(RemoveNil(profiles))
                    /\ Sending = {}
                    /\ profileChan.buf = <<>>
                    /\ resultChan.buf = <<>>

\* all four workers hold a result at once, one result is merged, others
\* wait in both queues
C26_Witness ==
    /\ PoolRun
    /\ HasNil(profiles)
    /\ Cardinality(Sending) = MaxWorkers
    /\ merged >= 1
    /\ profileChan.buf # <<>>
    /\ resultChan.buf # <<>>

-----------------------------------------------------------------------------
(* Properties of GetGitDiff                                                *)

\* the file of the hunk whose header is lines[i]: the path of the last
\* "+++ b/" line before it, <<>> when there is none
FileOfHunk(lines, i) ==
    LET headers == {j \in 1..(i - 1) : HasPrefix(lines[j], NewFilePrefix)}
    IN  IF headers = {} THEN <<>>
        ELSE TrimPrefix(lines[CHOOSE j \in headers : \A m \in headers : m <= j],
                        NewFilePrefix)

\* the number of entries GetGitDiff emits for the hunk header lines[i]
Emitted(lines, i) ==
    Len(getAddedLinesFromHunk(lines, lines[i], parseHunkHeader(lines[i])))

RECURSIVE ExpectedFiles(_, _)
ExpectedFiles(lines, k) ==
    IF k > Cardinality(HeaderIndexes(lines)) THEN <<>>
    ELSE LET i == NthIndex(HeaderIndexes(lines), k)
             file == FileOfHunk(lines, i)
         IN  (IF file = <<>> THEN <<>>
              ELSE [n \in 1..Emitted(lines, i) |-> file])
                \o ExpectedFiles(lines, k + 1)

\* C27: every DiffLine GetGitDiff emits carries the file name of the most
\* recent "+++ b/<path>" line before its hunk, and a hunk that comes
\* before any such line emits no DiffLine.
C27_FileOfMostRecentHeader ==
    (call.fn = "GetGitDiff" /\ out # NONE)
        => /\ [k \in 1..Len(out.v) |-> out.v[k].File]
                 = ExpectedFiles(DocLines(call), 1)
           /\ \A k \in 1..Len(out.v) :
                 /\ out.v[k].File # <<>>
                 /\ out.v[k].File
                       \in {call.changeSet[n].file : n \in 1..Len(call.changeSet)}
           /\ (call.headless /\ Len(call.changeSet) = 1) => out.v = <<>>
           /\ (call.headless /\ Len(call.changeSet) = 2)
                 => \A k \in 1..Len(out.v) :
                       out.v[k].File = call.changeSet[2].file

\* the text starts with a hunk that adds a line, before any "+++ b/" line;
\* only the hunks after the header of the second file are reported
C27_Witness ==
    /\ call.fn = "GetGitDiff"
    /\ call.headless
    /\ Len(call.changeSet) = 2
    /\ call.changeSet[1].changes[1].add > 0
    /\ HasPrefix(DocLines(call)[1], AtAt)
    /\ out # NONE
    /\ Len(out.v) > 0
    /\ \A k \in 1..Len(out.v) : out.v[k].File = call.changeSet[2].file

\* the entries of the hunks that come after a "+++ b/" line, each hunk
\* numbered over its own body
RECURSIVE ExpectedDiffLines(_, _)
ExpectedDiffLines(lines, k) ==
    IF k > Cardinality(HeaderIndexes(lines)) THEN <<>>
    ELSE LET i == NthIndex(HeaderIndexes(lines), k)
             file == FileOfHunk(lines, i)
         IN  (IF file = <<>> THEN <<>>
              ELSE HunkDiffLines(file, HunkAdded(lines, i)))
                \o ExpectedDiffLines(lines, k + 1)

\* C28: in GetGitDiff the added lines of a hunk are computed from the body
\* that follows the hunk's own header line, also when an earlier hunk of
\* the text has the same header line.
C28_OwnHunkBody ==
    (call.fn = "GetGitDiff" /\ out # NONE)
        => out.v = ExpectedDiffLines(DocLines(call), 1)

-----------------------------------------------------------------------------
(* Further properties of diff_coverage.go                                  *)

\* C29: in every result of CalculateDiffCoverage CoveredLines plus the
\* number of UncoveredLines is TotalLines and 0 <= CoveredLines <=
\* TotalLines; the summary's TotalLines and CoveredLines are the sums of
\* the per-file values and its Coverage is CoveredLines/TotalLines*100 (0
\* when TotalLines is 0); the summary values and the set of results are
\* the same for every order in which the files are visited.
C29_SummaryInvariants ==
    (call.fn = "CalculateDiffCoverage" /\ out # NONE)
        => LET results == out.v.Results IN
           /\ \A k \in 1..Len(results) :
                 /\ results[k].CoveredLines + Len(results[k].UncoveredLines)
                       = results[k].TotalLines
                 /\ 0 <= results[k].CoveredLines
                 /\ results[k].CoveredLines <= results[k].TotalLines
           /\ out.v.TotalLines = SumField(results, "TotalLines")
           /\ out.v.CoveredLines = SumField(results, "CoveredLines")
           /\ out.v.TotalLines = Len(call.diff)
           /\ out.v.CoveredLines <= out.v.TotalLines
           /\ out.v.Coverage =
                 IF out.v.TotalLines = 0 THEN FZero
                 ELSE FMulInt(FDivInt(out.v.CoveredLines, out.v.TotalLines), 100)
           /\ \A order \in Orders(ChangedFileSet(call.diff)) :
                 LET other == CalculateDiffCoverage(call.profiles, call.diff,
                                                    order)
                 IN  /\ other.TotalLines = out.v.TotalLines
                     /\ other.CoveredLines = out.v.CoveredLines
                     /\ other.Coverage = out.v.Coverage
                     /\ Range(other.Results) = Range(results)

\* three changed files, one without a profile, one covered line of three;
\* another visiting order gives the results in another order
C29_Witness ==
    /\ call.fn = "CalculateDiffCoverage"
    /\ out # NONE
    /\ Len(out.v.Results) = 3
    /\ \E k \in 1..3 :
          /\ FindMatchingProfile(call.profiles, out.v.Results[k].File) = NIL
          /\ out.v.Results[k].TotalLines = 1
    /\ out.v.TotalLines = 3
    /\ out.v.CoveredLines = 1
    /\ out.v.Coverage = FMulInt(FDivInt(1, 3), 100)
    /\ \E order \in Orders(ChangedFileSet(call.diff)) :
          CalculateDiffCoverage(call.profiles, call.diff, order).Results
             # out.v.Results

\* C30: when a changed line lies inside several blocks (blocks that share
\* a boundary line or overlap), isLineCovered reports it covered if any
\* block that holds the line has Count > 0; the result does not depend on
\* the order of the blocks in the profile.
Holding(blocks, lineNum) ==
    {i \in 1..Len(blocks) :
        blocks[i].StartLine <= lineNum /\ lineNum <= blocks[i].EndLine}

Reverse(seq) == [i \in 1..Len(seq) |-> seq[Len(seq) + 1 - i]]

C30_AnyHoldingBlock ==
    (call.fn = "isLineCovered" /\ out # NONE
        /\ Cardinality(Holding(call.profile.Blocks, call.lineNum)) > 1)
        => /\ out.v = (\E i \in Holding(call.profile.Blocks, call.lineNum) :
                          call.profile.Blocks[i].Count > 0)
           /\ out.v = isLineCovered([call.profile EXCEPT !.Blocks = Reverse(@)],
                                    call.lineNum)

=============================================================================
